---------------------------- MODULE Spec2Model ----------------------------
(***************************************************************************)
(* Quarterly Subscriptions & Services model (scripts/subscriptions_model)  *)
(* and its backtest drivers (scripts/backtest_q2, tests/test_backtests),   *)
(* the Q3 forecast (scripts/q3_forecast), the fetch loops and the daily    *)
(* sentiment factor (scripts/build_sentiment_factor,                       *)
(* scripts/enhanced_sentiment).  Each program has its own specification    *)
(* over the one tuple of variables: Spec, SpecForecast, SpecFetch,         *)
(* SpecSentiment (factor frames, main and its two files), SpecFeatures     *)
(* (the momentum features on long series).                                 *)
(*                                                                         *)
(* Numbers.  A Python float is modelled by an exact rational in the        *)
(* canonical form (m / d) * 10^e : d > 0 coprime to 10, gcd(m, d) = 1, m   *)
(* not a multiple of 10 (zero is m = 0, d = 1, e = 0).  The form is unique, *)
(* so equality of values is equality of records.  Binary rounding of the   *)
(* IEEE double is not modelled, except in the mean, the deviation and the  *)
(* z-scores of the sentiment factor, which round to a float of SigDigits   *)
(* decimal digits; the not-a-number value is the tag "nan".                *)
(* A JSON value carries a tag t:                                           *)
(*   "num"     a JSON number                                               *)
(*   "numstr"  a JSON string holding a numeral, e.g. "5"                    *)
(*   "str"     a JSON string that is no numeral, e.g. "abc"                 *)
(*   "null"    JSON null                                                   *)
(* and an exception raised inside an arithmetic expression is the tag      *)
(* "TypeError", which every later operation of the expression propagates   *)
(* (a str or None operand never yields a number: str * float and           *)
(* None * x raise at once, str * int is a str that the next float operand  *)
(* or the sum with a float rejects).                                       *)
(***************************************************************************)
EXTENDS Integers, Sequences, FiniteSets, TLC

VARIABLES
    doc,       \* the JSON document of the configuration file on disk (a dict)
    pc,        \* position of the driver
    cfg,       \* the QuarterConfig returned by load_config
    res,       \* the dict returned by the latest run_model call
    prev,      \* the dict returned by the run_model call before it
    nruns,     \* number of run_model calls that returned
    exc,       \* the exception that ended the driver ("" when none)
    accepted,  \* outcome of the backtest assertion abs(error_pct) <= 0.05
    \* scripts/q3_forecast
    mfile,       \* data/coinbase_sentiment_monthly.csv on disk
    args,        \* the command line of q3_forecast.main
    trans_rev,   \* calculate_transaction_revenue(...) of the base case
    bull_trans,  \* the same of the bull case
    bear_trans,  \* the same of the bear case
    forecast,    \* the dict forecast_q3 returns
    nwrites,     \* number of times the sentiment run rewrote mfile meanwhile
    \* the signal fetchers of scripts/build_sentiment_factor and
    \* scripts/enhanced_sentiment
    fetcher,     \* the fetch function running
    nunits,      \* number of keywords, or of days, it was called with
    unit,        \* the keyword or day its loop is at
    out,         \* frames / recs / records: what the loop has collected
    log,         \* the network calls and sleeps so far, in order
    replies,     \* what the source answered to each call so far
    fstate,      \* "loop", "returned", or "raised" to the caller
    \* a sentiment run
    provider,    \* the function that builds the daily frame
    ndays,       \* number of days from start to end
    trends,      \* trends_value on the days Google Trends returned
    reddit,      \* the record of every day from the Reddit fetch
    band,        \* max_up and max_down
    gemini,      \* whether Gemini is enabled
    noise,       \* what np.random.normal draws for the mock frame
    series,      \* the argument of zscore
    zs,          \* the result of zscore
    daily,       \* the rows of the daily frame returned
    clipped,     \* the sentiment_factor column the provider computed, after np.clip
    sentcfg,     \* use_real_data of configs/sentiment_config.json, or "unreadable"
    use_real_data, \* the local of build_sentiment_factor.main
    daily_csv,   \* the rows written to args.out_daily
    monthly_csv, \* the rows written to args.out_monthly
    feat,        \* the feature columns a feature function returned
    sstate       \* "called", "returned" or "raised"

dvars == <<doc, pc, cfg, res, prev, nruns, exc, accepted>>
fvars == <<mfile, args, trans_rev, bull_trans, bear_trans, forecast, nwrites>>
nvars == <<fetcher, nunits, unit, out, log, replies, fstate>>
svars == <<provider, ndays, trends, reddit, band, gemini, noise, series, zs, daily,
          clipped, sentcfg, use_real_data, daily_csv, monthly_csv, feat, sstate>>
\* what a provider leaves alone besides its inputs
mainvars == <<sentcfg, use_real_data, daily_csv, monthly_csv, feat>>
vars == <<dvars, fvars, nvars, svars>>

\* what the backtest drivers never touch
notDriver == <<fvars, nvars, svars>>
\* what q3_forecast never touches
notForecast == <<nvars, svars>>
dvars_but_pc == <<doc, cfg, res, prev, nruns, exc, accepted>>

\* number of load_config/run_model rounds one driver performs
MaxRuns == 2

\* number of times the monthly sentiment file is rewritten during a forecast
MaxWrites == 1

\* number of keywords, or of days, of one fetch
MaxUnits == 3

\* number of days of the range of a sentiment run
MaxDays == 3

\* number of days at the head of the range on which Reddit has posts
MaxPostDays == 2

\* number of observations handed to a feature function
MaxObs == 29

---------------------------------------------------------------------------
(* Exact arithmetic *)

Abs(x) == IF x < 0 THEN -x ELSE x

RECURSIVE Pow10(_)
Pow10(n) == IF n <= 0 THEN 1 ELSE 10 * Pow10(n - 1)

RECURSIVE GCD(_, _)
GCD(a, b) == IF b = 0 THEN a ELSE GCD(b, a % b)

\* move the factors 2 and 5 of the denominator into the decimal exponent
RECURSIVE FixD(_, _, _)
FixD(m, d, e) ==
    IF d % 2 = 0 THEN FixD(m * 5, d \div 2, e - 1)
    ELSE IF d % 5 = 0 THEN FixD(m * 2, d \div 5, e - 1)
    ELSE [m |-> m, d |-> d, e |-> e]

\* move the factors 10 of the numerator into the decimal exponent
RECURSIVE StripM(_, _, _)
StripM(m, d, e) ==
    IF m % 10 = 0 THEN StripM(m \div 10, d, e + 1)
    ELSE [t |-> "num", m |-> m, d |-> d, e |-> e]

Zero == [t |-> "num", m |-> 0, d |-> 1, e |-> 0]

\* the number (m / d) * 10^e in canonical form, d # 0
Mk(m, d, e) ==
    IF m = 0 THEN Zero
    ELSE LET s  == IF d < 0 THEN -1 ELSE 1
             g  == GCD(Abs(m), Abs(d))
             f  == FixD((s * m) \div g, Abs(d) \div g, e)
         IN  StripM(f.m, f.d, f.e)

\* the decimal m * 10^e
D(m, e) == Mk(m, 1, e)

NaN     == [t |-> "nan", m |-> 0, d |-> 1, e |-> 0]
TypeErr == [t |-> "TypeError", m |-> 0, d |-> 1, e |-> 0]
Text    == [t |-> "str", m |-> 0, d |-> 1, e |-> 0]
Null    == [t |-> "null", m |-> 0, d |-> 1, e |-> 0]
NumStr(v) == [v EXCEPT !.t = "numstr"]

IsNum(v) == v.t = "num"

\* the number (m1 / d1) * (m2 / d2) * 10^e, reduced crosswise before the
\* products are formed; d1, d2 # 0
Frac(m1, d1, m2, d2, e) ==
    IF m1 = 0 \/ m2 = 0 THEN Zero
    ELSE LET g1 == GCD(Abs(m1), Abs(d2))
             g2 == GCD(Abs(m2), Abs(d1))
         IN  Mk((m1 \div g1) * (m2 \div g2), (d1 \div g2) * (d2 \div g1), e)

\* a * b on floats; any other operand ends in a TypeError of the expression
fmul(a, b) ==
    IF IsNum(a) /\ IsNum(b) THEN Frac(a.m, a.d, b.m, b.d, a.e + b.e)
    ELSE TypeErr

\* a + b
fadd(a, b) ==
    IF IsNum(a) /\ IsNum(b)
    THEN IF a.m = 0 THEN b
         ELSE IF b.m = 0 THEN a
         ELSE
         LET e == IF a.e < b.e THEN a.e ELSE b.e
         IN  Mk(a.m * Pow10(a.e - e) * b.d + b.m * Pow10(b.e - e) * a.d,
                a.d * b.d, e)
    ELSE TypeErr

fneg(a) == IF IsNum(a) THEN [a EXCEPT !.m = -a.m] ELSE a

\* a - b
fsub(a, b) == fadd(a, fneg(b))

\* a / b, b # 0
fdiv(a, b) ==
    IF IsNum(a) /\ IsNum(b) THEN Frac(a.m, a.d, b.d, b.m, a.e - b.e)
    ELSE TypeErr

\* abs(a); abs(nan) is nan
fabs(a) == IF IsNum(a) THEN [a EXCEPT !.m = Abs(a.m)] ELSE a

\* x * 10^k <= y for naturals x, y, k, without forming the power
RECURSIVE LeScaled(_, _, _)
LeScaled(x, y, k) == IF k = 0 THEN x <= y ELSE LeScaled(x, y \div 10, k - 1)

\* a <= b for positive numbers
LeMag(a, b) ==
    LET x == a.m * b.d
        y == b.m * a.d
    IN  IF a.e >= b.e THEN LeScaled(x, y, a.e - b.e)
        ELSE ~LeScaled(y, x - 1, b.e - a.e)

\* a <= b; every comparison with nan is False
fle(a, b) ==
    /\ IsNum(a)
    /\ IsNum(b)
    /\ CASE a.m <= 0 /\ b.m >= 0 -> TRUE
         [] a.m >= 0 /\ b.m <= 0 -> FALSE
         [] a.m > 0 /\ b.m > 0   -> LeMag(a, b)
         [] OTHER                -> LeMag(fneg(b), fneg(a))

\* a > 0
fpos(a) == IsNum(a) /\ a.m > 0

\* truth value of a float: `if x` is False for 0.0 only (nan is true)
truthy(a) == ~(IsNum(a) /\ a.m = 0)

---------------------------------------------------------------------------
(* Data model: the dataclasses of subscriptions_model.py *)

InterestFields == {"fiat_balance", "fiat_rate", "fiat_share",
                   "usdc_balance", "usdc_rate", "usdc_share"}
StakingFields  == {"eth_staked_units", "eth_price", "reward_apr", "take_rate"}
CustodyFields  == {"auc", "fee_bps"}

\* dict[key], raising KeyError when the key is absent
HasKey(d, k) == k \in DOMAIN d

\* mutant: the default of the optional keys is 1
GetDefault_One == D(1, 0)

\* the literal default of cfg.get("reference_total", 0) and cfg.get("other", 0)
GetDefault == Zero

\* dict.get(key, 0)
DictGet(d, k) == IF HasKey(d, k) THEN d[k] ELSE GetDefault

\* float(x): [exc, val]
PyFloat(v) ==
    CASE v.t = "num"    -> [exc |-> "", val |-> v]
      [] v.t = "numstr" -> [exc |-> "", val |-> [v EXCEPT !.t = "num"]]
      [] v.t = "str"    -> [exc |-> "ValueError", val |-> NaN]
      [] OTHER          -> [exc |-> "TypeError", val |-> NaN]

\* a dataclass constructor called with **d: the keywords must be exactly the
\* declared fields (TypeError otherwise); the values are stored as given
CtorOk(d, fields) == DOMAIN d = fields
Ctor(d, fields) == [f \in fields |-> d[f]]

NoInputs(fields) == [f \in fields |-> Null]
NoCfg == [quarter |-> "", reference_total |-> NaN,
          interest |-> NoInputs(InterestFields),
          staking |-> NoInputs(StakingFields),
          custody |-> NoInputs(CustodyFields), other |-> NaN]

\* load_config(path) on the document d that json.load returned: [exc, cfg].
\* The keyword arguments of QuarterConfig(...) are evaluated in source order.
load_config(d) ==
    LET fail(x) == [exc |-> x, cfg |-> NoCfg]
        rt == PyFloat(DictGet(d, "reference_total"))
        ot == PyFloat(DictGet(d, "other"))
    IN  IF ~HasKey(d, "quarter") THEN fail("KeyError")
        ELSE IF rt.exc # "" THEN fail(rt.exc)
        ELSE IF ~HasKey(d, "interest") THEN fail("KeyError")
        ELSE IF ~CtorOk(d["interest"], InterestFields) THEN fail("TypeError")
        ELSE IF ~HasKey(d, "staking") THEN fail("KeyError")
        ELSE IF ~CtorOk(d["staking"], StakingFields) THEN fail("TypeError")
        ELSE IF ~HasKey(d, "custody") THEN fail("KeyError")
        ELSE IF ~CtorOk(d["custody"], CustodyFields) THEN fail("TypeError")
        ELSE IF ot.exc # "" THEN fail(ot.exc)
        ELSE [exc |-> "",
              cfg |-> [quarter |-> d["quarter"],
                       reference_total |-> rt.val,
                       interest |-> Ctor(d["interest"], InterestFields),
                       staking |-> Ctor(d["staking"], StakingFields),
                       custody |-> Ctor(d["custody"], CustodyFields),
                       other |-> ot.val]]

---------------------------------------------------------------------------
(* Component calculators *)

\* mutant: the USDC pool is left out of the interest
calc_interest_FiatOnly(iii) ==
    fmul(fmul(iii["fiat_balance"], iii["fiat_rate"]), iii["fiat_share"])

calc_interest(iii) ==
    LET fiat == fmul(fmul(iii["fiat_balance"], iii["fiat_rate"]), iii["fiat_share"])
        usdc == fmul(fmul(iii["usdc_balance"], iii["usdc_rate"]), iii["usdc_share"])
    IN  fadd(fiat, usdc)

\* the divisor 4.0 of the quarterly slice
QuartersPerYear == D(4, 0)

\* mutant: the annual rewards are not sliced to a quarter
calc_staking_Annual(sss) ==
    fmul(fmul(fmul(sss["eth_staked_units"], sss["eth_price"]), sss["reward_apr"]),
         sss["take_rate"])

calc_staking(sss) ==
    LET staked_notional   == fmul(sss["eth_staked_units"], sss["eth_price"])
        annual_rewards    == fmul(staked_notional, sss["reward_apr"])
        quarterly_rewards == fdiv(annual_rewards, QuartersPerYear)
    IN  fmul(quarterly_rewards, sss["take_rate"])

\* mutant: fee_bps is read as a count of basis points
calc_custody_BasisPoints(ccc) == fmul(ccc["auc"], fdiv(ccc["fee_bps"], D(1, 4)))

calc_custody(ccc) == fmul(ccc["auc"], ccc["fee_bps"])

---------------------------------------------------------------------------
(* Model runner *)

\* mutant: other depends on how many calls were made before
ModelOther_Stateful(c) == IF nruns = 0 THEN c.other ELSE fadd(c.other, D(1, 3))

\* other = cfg.other
ModelOther(c) == c.other

\* mutant: other is left out of the total
ModelTotal_DropOther(interest, staking, custody, other) ==
    fadd(fadd(interest, staking), custody)

\* total = interest + staking + custody + other
ModelTotal(interest, staking, custody, other) ==
    fadd(fadd(fadd(interest, staking), custody), other)

\* mutant: a missing error is reported as 0.0
NotApplicable_Zero == Zero

\* err = total - cfg.reference_total if cfg.reference_total else None;
\* None is reported as float("nan")
NotApplicable == NaN

ErrAbs(total, ref) == IF truthy(ref) THEN fsub(total, ref) ELSE NotApplicable

\* mutant: the ratio is not scaled to a percentage
ErrPct_Unscaled(err, ref) ==
    IF truthy(ref) THEN fdiv(err, ref) ELSE NotApplicable

\* err_pct = (err / cfg.reference_total * 100.0) if cfg.reference_total else None
ErrPct(err, ref) ==
    IF truthy(ref) THEN fmul(fdiv(err, ref), D(100, 0)) ELSE NotApplicable

NoRes == [quarter |-> "", interest |-> NaN, staking |-> NaN, custody |-> NaN,
          other |-> NaN, total |-> NaN, reference_total |-> NaN,
          error_abs |-> NaN, error_pct |-> NaN]

\* run_model(cfg): [exc, res].  A TypeError raised by any arithmetic step ends
\* the call before the dict is built.
run_model(c) ==
    LET interest == calc_interest(c.interest)
        staking  == calc_staking(c.staking)
        custody  == calc_custody(c.custody)
        other    == ModelOther(c)
        total    == ModelTotal(interest, staking, custody, other)
        err      == ErrAbs(total, c.reference_total)
        err_pct  == ErrPct(err, c.reference_total)
    IN  IF total.t = "TypeError"
        THEN [exc |-> "TypeError", res |-> NoRes]
        ELSE [exc |-> "",
              res |-> [quarter |-> c.quarter, interest |-> interest,
                       staking |-> staking, custody |-> custody,
                       other |-> other, total |-> total,
                       reference_total |-> c.reference_total,
                       error_abs |-> err, error_pct |-> err_pct]]

\* the backtest bar of test_q1_accuracy/test_q2_accuracy: abs(error_pct) <= 0.05
Tolerance == D(5, -2)
WithinTolerance(r) == fle(fabs(r.error_pct), Tolerance)

---------------------------------------------------------------------------
(* Configuration documents the drivers are run on *)

\* the inputs of the Q3 2025 forecast (model/create_forecast.py, rows 14-17)
ExInterest == [fiat_balance |-> D(25, 9), fiat_rate |-> D(54, -3),
               fiat_share |-> D(22, -2), usdc_balance |-> D(28, 9),
               usdc_rate |-> D(54, -3), usdc_share |-> D(35, -4)]
ExStaking  == [eth_staked_units |-> D(33, 6), eth_price |-> D(35, 2),
               reward_apr |-> D(4, -2), take_rate |-> D(115, -3)]
ExCustody  == [auc |-> D(15, 10), fee_bps |-> D(13, -5)]
ExOther    == D(-15, 5)

InterestChoices ==
    { ExInterest,
      [f \in InterestFields |-> Zero],
      [fiat_balance |-> D(1, 12), fiat_rate |-> D(5, -2), fiat_share |-> D(1, 0),
       usdc_balance |-> Zero, usdc_rate |-> D(5, -2), usdc_share |-> D(5, -1)] }
StakingChoices ==
    { ExStaking,
      [eth_staked_units |-> D(1, 6), eth_price |-> D(2, 3),
       reward_apr |-> D(4, -2), take_rate |-> D(25, -2)] }
CustodyChoices ==
    { ExCustody, [auc |-> D(2, 12), fee_bps |-> D(5, -4)] }
OtherChoices == { Zero, ExOther, D(2, 6), NumStr(D(5, 3)) }
RefChoices   == { Zero, D(453, 6), D(45, 7), D(453117, 3), NumStr(D(453, 6)) }

Quarters == {"Q3 2025"}

\* a document with every key
FullDoc(q, rt, i, s, c, o) ==
    [quarter |-> q, reference_total |-> rt, interest |-> i, staking |-> s,
     custody |-> c, other |-> o]

\* the document without the key k
DropKey(d, k) == [x \in DOMAIN d \ {k} |-> d[x]]

\* complete documents, and the same with the optional keys left out
GoodDocs ==
    LET full == { FullDoc(q, rt, i, s, c, o) :
                    q \in Quarters, rt \in RefChoices, i \in InterestChoices,
                    s \in StakingChoices, c \in CustodyChoices, o \in OtherChoices }
    IN  full
        \cup { DropKey(d, "reference_total") : d \in full }
        \cup { DropKey(d, "other") : d \in full }
        \cup { DropKey(DropKey(d, "other"), "reference_total") : d \in full }

SubRecords == {"interest", "staking", "custody"}
FieldsOf(sub) == CASE sub = "interest" -> InterestFields
                   [] sub = "staking"  -> StakingFields
                   [] sub = "custody"  -> CustodyFields

BadValues == { Text, Null, NumStr(D(7, 0)) }

\* documents with one defect each, made from the Q3 document with and
\* without its optional keys
BaseDocs ==
    LET full == FullDoc("Q3 2025", D(453, 6), ExInterest, ExStaking, ExCustody, ExOther)
    IN  { full, DropKey(DropKey(full, "other"), "reference_total") }

DefectDocs ==
    UNION { { DropKey(d, k) : k \in {"quarter"} \cup SubRecords }
            \cup { [d EXCEPT ![sub] = DropKey(@, f)] :
                     sub \in SubRecords, f \in InterestFields \cup StakingFields \cup CustodyFields }
            \cup { [d EXCEPT ![sub] = [g \in DOMAIN @ |-> IF g = f THEN v ELSE @[g]]] :
                     sub \in SubRecords,
                     f \in InterestFields \cup StakingFields \cup CustodyFields,
                     v \in BadValues }
            \cup { [d EXCEPT ![sub] = @ @@ ("unexpected" :> D(1, 0))] : sub \in SubRecords }
            \cup { [d EXCEPT ![k] = v] :
                     k \in {"reference_total", "other"} \cap DOMAIN d,
                     v \in {Text, Null} }
          : d \in BaseDocs }

\* documents whose numbers lie outside the ranges of the data model: a
\* negative amount or rate, a share or take rate above 1
ShareFields == {"fiat_share", "usdc_share", "take_rate"}
OutOfRangeDocs ==
    UNION { { [d EXCEPT ![sub] = [g \in DOMAIN @ |-> IF g = f THEN fneg(@[g]) ELSE @[g]]] :
                sub \in SubRecords,
                f \in InterestFields \cup StakingFields \cup CustodyFields }
            \cup { [d EXCEPT ![sub] = [g \in DOMAIN @ |-> IF g = f THEN D(15, -1) ELSE @[g]]] :
                     sub \in SubRecords, f \in ShareFields }
            \cup { [d EXCEPT ![k] = D(-453, 6)] : k \in {"reference_total"} \cap DOMAIN d }
          : d \in BaseDocs }

Docs == GoodDocs \cup DefectDocs \cup OutOfRangeDocs

---------------------------------------------------------------------------
(* Transaction revenue and the Q3 forecast (scripts/q3_forecast) *)

\* the monthly sentiment file: unreadable, or the rows of its table; a row
\* is a dict of the columns it has
NoFile == [readable |-> FALSE, rows |-> <<>>]
MonthlyFile(rows) == [readable |-> TRUE, rows |-> rows]
Row(m, v) == [month |-> m, sentiment_factor |-> v]

\* the dict `factors` after the rows i.. of the table (rows 11-16); a row
\* without a column raises KeyError
RECURSIVE ReadFactors(_, _, _)
ReadFactors(rows, i, factors) ==
    IF i > Len(rows) THEN [exc |-> "", factors |-> factors]
    ELSE LET row == rows[i]
         IN  IF ~ HasKey(row, "month") THEN [exc |-> "KeyError", factors |-> factors]
             ELSE IF row.month \in {"2025-08", "2025-09"} /\ ~ HasKey(row, "sentiment_factor")
             THEN [exc |-> "KeyError", factors |-> factors]
             ELSE IF row.month = "2025-08"
             THEN ReadFactors(rows, i + 1, ("aug" :> row.sentiment_factor) @@ factors)
             ELSE IF row.month = "2025-09"
             THEN ReadFactors(rows, i + 1, ("sep" :> row.sentiment_factor) @@ factors)
             ELSE ReadFactors(rows, i + 1, factors)

FallbackFactors == <<D(1018, -3), D(1015, -3)>>

\* mutant: a month the file lacks takes its fallback, the other the file's value
load_sentiment_factors_Mixed(f) ==
    IF ~ f.readable THEN FallbackFactors
    ELSE LET r == ReadFactors(f.rows, 1, <<>>)
         IN  <<IF HasKey(r.factors, "aug") THEN r.factors["aug"] ELSE FallbackFactors[1],
               IF HasKey(r.factors, "sep") THEN r.factors["sep"] ELSE FallbackFactors[2]>>

\* load_sentiment_factors(): the pair (aug, sep)
load_sentiment_factors(f) ==
    IF ~ f.readable THEN FallbackFactors
    ELSE LET r == ReadFactors(f.rows, 1, <<>>)
         IN  IF r.exc # "" THEN FallbackFactors
             ELSE IF HasKey(r.factors, "aug") /\ HasKey(r.factors, "sep")
             THEN <<r.factors["aug"], r.factors["sep"]>>
             ELSE FallbackFactors

JulyRevenue == D(36, 7)
Billion == D(1, 9)

\* mutant: the sentiment multipliers are left out of the monthly revenue
calculate_transaction_revenue_NoSentiment(f, aug_notional_b, sep_notional_b, take_rate) ==
    LET sent == load_sentiment_factors(f)
        aug_rev == fmul(fmul(aug_notional_b, Billion), take_rate)
        sep_rev == fmul(fmul(sep_notional_b, Billion), take_rate)
    IN  [july |-> JulyRevenue, august |-> aug_rev, september |-> sep_rev,
         total |-> fadd(fadd(JulyRevenue, aug_rev), sep_rev),
         aug_sentiment |-> sent[1], sep_sentiment |-> sent[2]]

\* calculate_transaction_revenue(aug_notional_b, sep_notional_b, take_rate),
\* reading the file f
calculate_transaction_revenue(f, aug_notional_b, sep_notional_b, take_rate) ==
    LET sent == load_sentiment_factors(f)
        aug_sentiment == sent[1]
        sep_sentiment == sent[2]
        july_rev == JulyRevenue
        aug_rev == fmul(fmul(fmul(aug_notional_b, Billion), take_rate), aug_sentiment)
        sep_rev == fmul(fmul(fmul(sep_notional_b, Billion), take_rate), sep_sentiment)
        total_rev == fadd(fadd(july_rev, aug_rev), sep_rev)
    IN  [july |-> july_rev, august |-> aug_rev, september |-> sep_rev,
         total |-> total_rev,
         aug_sentiment |-> aug_sentiment, sep_sentiment |-> sep_sentiment]

\* the parameters of the three scenarios (rows 23, 105, 109) as
\* [aug, sep, rate]
Params(a, s, t) == [aug |-> a, sep |-> s, rate |-> t]
DefaultParams == Params(D(72, 0), D(80, 0), D(25, -4))
\* mutant: the bull case computed with the base parameters
BullParams_Base == DefaultParams
BullParams == [DefaultParams EXCEPT !.sep = D(88, 0), !.rate = D(27, -4)]
BearParams == [DefaultParams EXCEPT !.aug = D(65, 0), !.sep = D(72, 0), !.rate = D(23, -4)]

\* mutant: a scenario total is the transaction total alone
ScenarioTotal_TransOnly(trans, s_s_results) == trans.total

\* trans['total'] + s_s_results['total'] (rows 88, 106, 110)
ScenarioTotal(trans, s_s_results) == fadd(trans.total, s_s_results.total)

NoTrans == [july |-> NaN, august |-> NaN, september |-> NaN, total |-> NaN,
            aug_sentiment |-> NaN, sep_sentiment |-> NaN]
NoScenarios == [base |-> NaN, bull |-> NaN, bear |-> NaN]
NoResult == [total_revenue |-> NaN, transaction_revenue |-> NaN,
             s_s_revenue |-> NaN, scenarios |-> NoScenarios,
             transactions |-> NoTrans, s_s |-> NoRes]

\* the state of the forecast variables while no forecast runs
NoForecast ==
    /\ mfile = NoFile
    /\ args = DefaultParams
    /\ trans_rev = NoTrans
    /\ bull_trans = NoTrans
    /\ bear_trans = NoTrans
    /\ forecast = NoResult
    /\ nwrites = 0

---------------------------------------------------------------------------
(* The signal fetchers: one network call per keyword (Google Trends) or per
   day (Reddit), scripts/build_sentiment_factor and scripts/enhanced_sentiment *)

Fetchers == {"fetch_trends", "fetch_reddit_counts_and_sentiment",
             "fetch_google_trends", "fetch_reddit_data"}
TrendsFetchers == {"fetch_trends", "fetch_google_trends"}

\* what Google Trends answers to one keyword: the keyword's interest, or a
\* failure, which pytrends turns into an exception of the call
TrendsReply(kind, value) == [kind |-> kind, value |-> value]
TrendsReplies ==
    { TrendsReply("ok", D(3, 1)), TrendsReply("ok", D(8, 1)),
      TrendsReply("unreachable", Zero), TrendsReply("status", Zero),
      TrendsReply("malformed", Zero) }

\* a submission of the answer of the Reddit search: a dict with a text of
\* the given VADER compound score, a dict with blank title and selftext, a
\* dict whose title is null, or an element that is no dict
Post(kind, score) == [kind |-> kind, score |-> score]
PostLists ==
    { <<>>,
      <<Post("good", D(5, -1))>>,
      <<Post("blank", Zero)>>,
      <<Post("nulltitle", D(-4, -1)), Post("good", D(8, -1))>>,
      <<Post("good", D(5, -1)), Post("nondict", Zero)>> }

\* what the Reddit search answers for one day: no connection, or a status
\* with a JSON body whose "data" is a list of submissions or null
RedditReply(status, shape, posts) == [status |-> status, shape |-> shape, posts |-> posts]
RedditReplies ==
    { RedditReply("unreachable", "list", <<>>),
      RedditReply("503", "list", <<>>),
      RedditReply("200", "null", <<>>) }
    \cup { RedditReply("200", "list", posts) : posts \in PostLists }

\* the events of the log
Call(k) == [ev |-> "call", unit |-> k, secs |-> Zero]
Sleep(secs) == [ev |-> "sleep", unit |-> 0, secs |-> secs]
TrendsDelay == D(1, 0)
RedditDelay == D(3, -1)

\* one element of frames, and the frame built for a keyword that failed
Frame(k, source, value) == [unit |-> k, source |-> source, value |-> value]
PlaceholderFrame(k) == Frame(k, "placeholder", D(5, 1))

\* np.mean(all_scores) if all_scores else 0.0
RECURSIVE SumOf(_, _)
SumOf(scores, i) == IF i > Len(scores) THEN Zero ELSE fadd(scores[i], SumOf(scores, i + 1))
MeanOrZero(scores) ==
    IF scores = <<>> THEN Zero ELSE fdiv(SumOf(scores, 1), D(Len(scores), 0))

\* the loop over the submissions from the i-th on (build_sentiment_factor
\* rows 83-88, enhanced_sentiment rows 125-130): the scores collected, and
\* the exception that ended the loop.  `or ""` makes a null title harmless
\* in the former; in the latter None + " " is a TypeError.
RECURSIVE ScanPosts(_, _, _, _)
ScanPosts(posts, i, all_scores, enhanced) ==
    IF i > Len(posts) THEN [exc |-> "", all_scores |-> all_scores]
    ELSE LET post == posts[i]
         IN  CASE post.kind = "nondict" -> [exc |-> "AttributeError", all_scores |-> all_scores]
               [] post.kind = "nulltitle" /\ enhanced ->
                      [exc |-> "TypeError", all_scores |-> all_scores]
               [] post.kind = "blank" -> ScanPosts(posts, i + 1, all_scores, enhanced)
               [] OTHER -> ScanPosts(posts, i + 1, Append(all_scores, post.score), enhanced)

\* rows 80-88 / 122-130: the request and the handling of its answer
Request(reply, enhanced) ==
    CASE reply.status = "unreachable" -> [exc |-> "RequestException", all_scores |-> <<>>]
      [] reply.status # "200" -> [exc |-> "", all_scores |-> <<>>]
      [] reply.shape = "null" -> [exc |-> "TypeError", all_scores |-> <<>>]
      [] OTHER -> ScanPosts(IF enhanced
                            THEN SubSeq(reply.posts, 1, IF Len(reply.posts) < 50
                                                       THEN Len(reply.posts) ELSE 50)
                            ELSE reply.posts,
                            1, <<>>, enhanced)

\* one element of recs / records (count is incremented with every score)
Rec(k, all_scores) ==
    [unit |-> k, reddit_volume |-> Len(all_scores),
     reddit_sentiment_raw |-> MeanOrZero(all_scores)]

\* no configuration document is involved
NoDoc == [k \in {} |-> Null]

\* the state of the fetch variables while no fetch runs
NoFetch ==
    /\ fetcher = ""
    /\ nunits = 0
    /\ unit = 0
    /\ out = <<>>
    /\ log = <<>>
    /\ replies = <<>>
    /\ fstate = ""

---------------------------------------------------------------------------
(* The sentiment factor: scripts/build_sentiment_factor and
   scripts/enhanced_sentiment.

   Sums, differences, products and quotients of the features are exact.
   The mean, the standard deviation and the z-scores are computed in
   floating point, as pandas computes them step by step, every result
   rounded to the nearest float with ties to even; the float of the model
   has SigDigits significant decimal digits where the double has 53 binary
   ones.  numpy.round is modelled as it works, to the given number of
   decimals with ties to even. *)

Inf == [t |-> "inf", m |-> 1, d |-> 1, e |-> 0]

\* numpy arithmetic on elements: nan in, nan out; x / 0 is inf, 0 / 0 nan
npadd(a, b) == IF IsNum(a) /\ IsNum(b) THEN fadd(a, b) ELSE NaN
npsub(a, b) == IF IsNum(a) /\ IsNum(b) THEN fsub(a, b) ELSE NaN
npmul(a, b) == IF IsNum(a) /\ IsNum(b) THEN fmul(a, b) ELSE NaN
npdiv(a, b) ==
    IF ~ (IsNum(a) /\ IsNum(b)) THEN NaN
    ELSE IF b.m = 0 THEN (IF a.m = 0 THEN NaN ELSE Inf)
    ELSE fdiv(a, b)

\* .replace([np.inf, -np.inf], np.nan).fillna(v)
ReplaceInfFillna(x, v) == IF IsNum(x) THEN x ELSE v

\* floor(n * 10^s / d) and its remainder from q = n \div d, r = n % d, by
\* long division (s >= 0)
RECURSIVE LongDiv(_, _, _, _)
LongDiv(q, r, d, s) ==
    IF s = 0 THEN [q |-> q, r |-> r]
    ELSE LongDiv(q * 10 + (r * 10) \div d, (r * 10) % d, d, s - 1)

\* numpy.round(x, k): x to k decimals, ties to even; nan stays nan
RoundDec(x, k) ==
    IF ~ IsNum(x) THEN x
    ELSE LET s   == x.e + k
             n   == Abs(x.m)
             den == IF s >= 0 THEN x.d ELSE x.d * Pow10(-s)
             ld  == IF s >= 0 THEN LongDiv(n \div den, n % den, den, s)
                    ELSE [q |-> n \div den, r |-> n % den]
             up  == 2 * ld.r > den \/ (2 * ld.r = den /\ ld.q % 2 = 1)
             t   == IF up THEN ld.q + 1 ELSE ld.q
         IN  D(IF x.m < 0 THEN -t ELSE t, -k)

\* significant digits of a float of the model
SigDigits == 4

\* the number of digits of q >= 1
RECURSIVE Digits(_)
Digits(q) == IF q < 10 THEN 1 ELSE 1 + Digits(q \div 10)

\* the least j with n * 10^j >= d, for 0 < n < d
RECURSIVE LeadShift(_, _, _)
LeadShift(n, d, j) == IF n >= d THEN j ELSE LeadShift(n * 10, d, j + 1)

\* the float nearest to x: x to SigDigits significant digits, ties to even
Fl(x) ==
    IF ~ IsNum(x) \/ x.m = 0 THEN x
    ELSE IF Abs(x.m) >= x.d
         THEN RoundDec(x, SigDigits - Digits(Abs(x.m) \div x.d) - x.e)
         ELSE RoundDec(x, SigDigits + LeadShift(Abs(x.m), x.d, 0) - 1 - x.e)
AsFloat(vs) == [i \in 1..Len(vs) |-> Fl(vs[i])]

\* the sum of the floats vs[i..], added one by one to acc
RECURSIVE FloatSum(_, _, _)
FloatSum(vs, i, acc) ==
    IF i > Len(vs) \/ acc = NaN THEN acc ELSE FloatSum(vs, i + 1, Fl(fadd(acc, vs[i])))

\* floor of the square root of q, lo^2 <= q < hi^2
RECURSIVE ISqrt(_, _, _)
ISqrt(q, lo, hi) ==
    IF hi - lo <= 1 THEN lo
    ELSE LET mid == (lo + hi) \div 2
         IN  IF mid * mid <= q THEN ISqrt(q, mid, hi) ELSE ISqrt(q, lo, mid)

\* q = floor(n * 100^k / d) brought into 10^6 .. 10^8 by the choice of k
RECURSIVE Scale100(_, _, _, _)
Scale100(q, r, d, k) ==
    IF q >= 100000000 THEN Scale100(q \div 100, 0, 1, k - 1)
    ELSE IF q >= 1000000 THEN [q |-> q, k |-> k]
    ELSE Scale100(q * 100 + (r * 100) \div d, (r * 100) % d, d, k + 1)

\* the square root of x >= 0 to four significant digits
fsqrt(x) ==
    IF ~ IsNum(x) \/ x.m < 0 THEN NaN
    ELSE IF x.m = 0 THEN Zero
    ELSE LET odd == x.e % 2 = 1
             n   == IF odd THEN x.m * 10 ELSE x.m
             e2  == IF odd THEN x.e - 1 ELSE x.e
             sc  == Scale100(n \div x.d, n % x.d, x.d, 0)
         IN  D(ISqrt(sc.q, 0, 10000), (e2 \div 2) - sc.k)

\* a pandas Series: the labels of its index and its values, in order
Series(index, values) == [index |-> index, values |-> values]
\* the label of the i-th day of a range that starts on 2025-07-30, and the
\* indexes of n elements
DayLabel(i) == IF i <= 2 THEN 20250729 + i ELSE 20250800 + (i - 2)
DateIndex(n) == [i \in 1..n |-> DayLabel(i)]
RangeIndex(n) == [i \in 1..n |-> i - 1]
Const(n, v) == [i \in 1..n |-> v]

\* s.mean() and s.std(ddof=0) as pandas computes them: nan elements are
\* skipped, nan when none is left; the mean is the sum by the count, the
\* variance the mean of the squares of (mean - value), each result a float
Valid(vs) == SelectSeq(vs, IsNum)
Mean(vs) ==
    IF Len(Valid(vs)) = 0 THEN NaN
    ELSE Fl(fdiv(FloatSum(Valid(vs), 1, Zero), D(Len(Valid(vs)), 0)))
Squares(ok, mu) ==
    [i \in 1..Len(ok) |-> Fl(fmul(Fl(fsub(mu, ok[i])), Fl(fsub(mu, ok[i]))))]
PopVar(vs) ==
    IF Len(Valid(vs)) = 0 THEN NaN
    ELSE Fl(fdiv(FloatSum(Squares(Valid(vs), Mean(vs)), 1, Zero),
                 D(Len(Valid(vs)), 0)))
PopStd(vs) == fsqrt(PopVar(vs))

\* (s - mu) / sd, element by element
Standardize(vs, mu, sd) ==
    [i \in 1..Len(vs) |-> Fl(npdiv(Fl(npsub(vs[i], mu)), sd))]

\* zscore(s), build_sentiment_factor rows 108-113 and enhanced_sentiment
\* rows 224-228, on the floats of s
zscore(s) ==
    IF PopStd(AsFloat(s.values)) = Zero \/ PopStd(AsFloat(s.values)) = NaN
    THEN Series(s.index, Const(Len(s.values), Zero))
    ELSE Series(s.index, Standardize(AsFloat(s.values), Mean(AsFloat(s.values)),
                                     PopStd(AsFloat(s.values))))

\* s.rolling(window, min_periods).mean()
Rolling_NoMinimum(vs, window, min_periods) ==
    [j \in 1..Len(vs) |->
        LET from == IF j - window + 1 < 1 THEN 1 ELSE j - window + 1
            ok   == Valid(SubSeq(vs, from, j))
        IN  IF Len(ok) >= 1 THEN Mean(ok) ELSE NaN]

Rolling(vs, window, min_periods) ==
    [j \in 1..Len(vs) |->
        LET from == IF j - window + 1 < 1 THEN 1 ELSE j - window + 1
            ok   == Valid(SubSeq(vs, from, j))
        IN  IF Len(ok) >= min_periods THEN Mean(ok) ELSE NaN]

\* the nearest non-nan position before and after i, 0 when there is none
PrevValid(vs, i) ==
    LET S == { j \in 1..(i - 1) : IsNum(vs[j]) }
    IN  IF S = {} THEN 0 ELSE CHOOSE j \in S : \A k \in S : k <= j
NextValid(vs, i) ==
    LET S == { j \in (i + 1)..Len(vs) : IsNum(vs[j]) }
    IN  IF S = {} THEN 0 ELSE CHOOSE j \in S : \A k \in S : j <= k

\* s.interpolate(): linear between the neighbours, the last value after the
\* last one, nothing before the first
interpolate(vs) ==
    [i \in 1..Len(vs) |->
        IF IsNum(vs[i]) THEN vs[i]
        ELSE LET p == PrevValid(vs, i)
                 q == NextValid(vs, i)
             IN  IF p = 0 THEN NaN
                 ELSE IF q = 0 THEN vs[p]
                 ELSE fadd(vs[p], fdiv(fmul(fsub(vs[q], vs[p]), D(i - p, 0)),
                                       D(q - p, 0)))]
bfill(vs) ==
    [i \in 1..Len(vs) |->
        IF IsNum(vs[i]) \/ NextValid(vs, i) = 0 THEN vs[i] ELSE vs[NextValid(vs, i)]]
ffill(vs) ==
    [i \in 1..Len(vs) |->
        IF IsNum(vs[i]) \/ PrevValid(vs, i) = 0 THEN vs[i] ELSE vs[PrevValid(vs, i)]]

\* mutant: the fill without the backward fill
Fill_Forward(vs) == ffill(interpolate(vs))

\* df[col].interpolate().bfill().ffill()
Fill(vs) == ffill(bfill(interpolate(vs)))

\* np.clip(x, lo, hi) on an element; nan stays nan
NpClip(x, lo, hi) ==
    IF ~ IsNum(x) THEN x
    ELSE IF ~ fle(lo, x) THEN lo
    ELSE IF ~ fle(x, hi) THEN hi
    ELSE x

\* the days of S in order
RECURSIVE SortedDays(_)
SortedDays(S) ==
    IF S = {} THEN <<>>
    ELSE LET d == CHOOSE x \in S : \A y \in S : x <= y
         IN  <<d>> \o SortedDays(S \ {d})

BaselineDays == 28
TrendsWindow == 28
VolumeWindow == 14
MinPeriods == 7

\* trends_features(trends_df, start): trends_df maps the days Google Trends
\* returned to trends_value; the result maps them to level and momentum
trends_features(trends_df) ==
    LET days     == SortedDays(DOMAIN trends_df)
        value    == [j \in 1..Len(days) |-> trends_df[days[j]]]
        window   == SelectSeq(days, LAMBDA d : d < 1 + BaselineDays)
        baseline == IF Len(window) # 0
                    THEN Mean([j \in 1..Len(window) |-> trends_df[window[j]]])
                    ELSE Mean(value)
        base     == IF truthy(baseline) THEN baseline ELSE D(1, 0)
        ma_28    == Rolling(value, TrendsWindow, MinPeriods)
    IN  [d \in DOMAIN trends_df |->
            LET j == CHOOSE k \in 1..Len(days) : days[k] = d
            IN  [trends_value |-> value[j],
                 trends_level |-> npdiv(value[j], base),
                 trends_momentum |->
                     ReplaceInfFillna(npdiv(value[j], ma_28[j]), D(1, 0))]]

\* the columns of rows 103-105 from recs
reddit_features(recs) ==
    LET volume   == [i \in 1..Len(recs) |-> D(recs[i].reddit_volume, 0)]
        vol_ma14 == Rolling(volume, VolumeWindow, MinPeriods)
    IN  [i \in 1..Len(recs) |->
            [reddit_volume |-> volume[i],
             reddit_volume_mom |->
                 ReplaceInfFillna(npdiv(volume[i], vol_ma14[i]), D(1, 0)),
             reddit_sentiment |->
                 fadd(D(1, 0), fmul(recs[i].reddit_sentiment_raw, D(25, -2)))]]

\* a column of pd.merge(trends, reddit, on="date", how="outer")
\*   .sort_values("date").set_index("date").asfreq("D")
\* over the n days of the range (reddit has every day of it)
TrendsColumn(t, col, n) == [d \in 1..n |-> IF d \in DOMAIN t THEN t[d][col] ELSE NaN]
RedditColumn(r, col, n) == [d \in 1..n |-> r[d][col]]

\* the value of the Series s at a label, nan where s has no such label
At(s, label) ==
    IF \E i \in 1..Len(s.index) : s.index[i] = label
    THEN s.values[CHOOSE i \in 1..Len(s.index) : s.index[i] = label]
    ELSE NaN
\* the union of two indexes, the labels of the first in front
UnionIndex(ix, iy) ==
    IF ix = iy THEN ix
    ELSE ix \o SelectSeq(iy, LAMBDA l : \A i \in 1..Len(ix) : ix[i] # l)
\* a + b on Series: aligned on the labels, nan where one side lacks the label
SeriesAdd(a, b) ==
    LET ix == UnionIndex(a.index, b.index)
    IN  Series(ix, [i \in 1..Len(ix) |->
                       IF (\E j \in 1..Len(a.index) : a.index[j] = ix[i])
                          /\ (\E j \in 1..Len(b.index) : b.index[j] = ix[i])
                       THEN npadd(At(a, ix[i]), At(b, ix[i]))
                       ELSE NaN])
\* c * s, and s mapped element by element
SeriesScale(c, s) == Series(s.index, [i \in 1..Len(s.values) |-> npmul(c, s.values[i])])

FeatureCols == <<"trends_level", "trends_momentum", "reddit_volume_mom", "reddit_sentiment">>

\* pd.DataFrame({"date": date, "sentiment_factor": factor.round(4),
\*               <feature>: df[<feature>].round(3) ...}): the index is the
\* union of the indexes of the Series; an array of another length is a
\* ValueError.  The rows, or the exception.
DataFrame(date, factor, df) ==
    LET index == UnionIndex(factor.index, df.index)
    IN  IF Len(date) # Len(index) THEN [exc |-> "ValueError", rows |-> <<>>]
        ELSE [exc |-> "",
              rows |-> [i \in 1..Len(index) |->
                  [date |-> date[i],
                   sentiment_factor |-> RoundDec(At(factor, index[i]), 4),
                   trends_level |->
                       RoundDec(At(Series(df.index, df.trends_level), index[i]), 3),
                   trends_momentum |->
                       RoundDec(At(Series(df.index, df.trends_momentum), index[i]), 3),
                   reddit_volume_mom |->
                       RoundDec(At(Series(df.index, df.reddit_volume_mom), index[i]), 3),
                   reddit_sentiment |->
                       RoundDec(At(Series(df.index, df.reddit_sentiment), index[i]), 3)]]]

\* rows 107-111 of build_factor: the merged daily frame, every feature
\* interpolated and filled both ways
merge_features(t, r, n) ==
    [index |-> DateIndex(n),
     trends_level |-> Fill(TrendsColumn(t, "trends_level", n)),
     trends_momentum |-> Fill(TrendsColumn(t, "trends_momentum", n)),
     reddit_volume_mom |-> Fill(RedditColumn(r, "reddit_volume_mom", n)),
     reddit_sentiment |-> Fill(RedditColumn(r, "reddit_sentiment", n))]

\* rows 119-124 of build_factor: z, the weighted sum of the z-scores
weighted_z(df) ==
    SeriesAdd(
      SeriesAdd(
        SeriesAdd(
          SeriesScale(D(4, -1), zscore(Series(df.index, df.trends_level))),
          SeriesScale(D(2, -1), zscore(Series(df.index, df.trends_momentum)))),
        SeriesScale(D(25, -2), zscore(Series(df.index, df.reddit_volume_mom)))),
      SeriesScale(D(15, -2), zscore(Series(df.index, df.reddit_sentiment))))

\* rows 127-128 of build_factor: np.clip(1.0 + z * 0.015, lo, hi)
clip_factor(z, lo, hi) ==
    Series(z.index, [i \in 1..Len(z.values) |->
               NpClip(npadd(D(1, 0), npmul(z.values[i], D(15, -3))), lo, hi)])

\* what a provider leaves: the factor it computed and the frame it built of
\* it, or the exception of the constructor
Computed(f, frame) == [factor |-> f.values, exc |-> frame.exc, rows |-> frame.rows]
OutFrame(df, f) == Computed(f, DataFrame(df.index, f, df))

\* rows 132-161 of build_factor on the merged frame
factor_frame(df, max_up, max_down) ==
    OutFrame(df, clip_factor(weighted_z(df), fadd(D(1, 0), max_down),
                             fadd(D(1, 0), max_up)))

\* build_factor(start, end, keywords, reddit_query, max_up, max_down) from
\* what fetch_trends and fetch_reddit_counts_and_sentiment returned for the
\* n days of the range
build_factor(trends_df, recs, n, max_up, max_down) ==
    factor_frame(merge_features(trends_features(trends_df), reddit_features(recs), n),
                 max_up, max_down)

\* EnhancedSentimentAnalyzer.analyze_with_gemini(reddit_df): None when Gemini
\* is off; else the loop of rows 152-153 runs over the column names of the
\* frame and indexes a str with "reddit_posts"
analyze_with_gemini(gemini_enabled) ==
    IF gemini_enabled THEN [exc |-> "TypeError", score |-> NaN]
    ELSE [exc |-> "", score |-> Null]

\* rows 185-201 of build_composite_factor: the feature columns over the n
\* days of the frame (no fill step)
composite_features(trends_df, recs, n) ==
    LET value    == [d \in 1..n |-> IF d \in DOMAIN trends_df THEN trends_df[d] ELSE NaN]
        baseline == IF n > BaselineDays THEN Mean(SubSeq(value, 1, BaselineDays))
                    ELSE Mean(value)
        base     == IF truthy(baseline) THEN baseline ELSE D(1, 0)
        ma_28    == Rolling(value, TrendsWindow, MinPeriods)
        r        == reddit_features(recs)
    IN  [index |-> DateIndex(n),
         trends_level |-> [d \in 1..n |-> npdiv(value[d], base)],
         trends_momentum |-> [d \in 1..n |->
             ReplaceInfFillna(npdiv(value[d], ma_28[d]), D(1, 0))],
         reddit_volume_mom |-> RedditColumn(r, "reddit_volume_mom", n),
         reddit_sentiment |-> RedditColumn(r, "reddit_sentiment", n)]

\* gemini_factor of build_composite_factor from the result g of analyze_with_gemini
gemini_factor_of(g) ==
    IF g.score # Null
    THEN fadd(D(9, -1), fmul(fdiv(g.score, D(1, 1)), D(2, -1)))
    ELSE D(1, 0)

\* composite of build_composite_factor: the four z-scores on the dates and
\* the z-score of a Series built from a list, which has a RangeIndex
composite_z(df, gemini_factor, n) ==
    SeriesAdd(
      SeriesAdd(
        SeriesAdd(
          SeriesAdd(
            SeriesScale(D(25, -2), zscore(Series(df.index, df.trends_level))),
            SeriesScale(D(15, -2), zscore(Series(df.index, df.trends_momentum)))),
          SeriesScale(D(2, -1), zscore(Series(df.index, df.reddit_volume_mom)))),
        SeriesScale(D(15, -2), zscore(Series(df.index, df.reddit_sentiment)))),
      SeriesScale(D(25, -2),
                  zscore(Series(RangeIndex(n), Const(n, gemini_factor)))))

\* np.clip(1.0 + composite * 0.015 * gemini_factor, 0.95, 1.05)
clip_composite(composite, gemini_factor) ==
    Series(composite.index, [i \in 1..Len(composite.values) |->
               NpClip(npadd(D(1, 0), npmul(npmul(composite.values[i], D(15, -3)),
                                           gemini_factor)),
                      D(95, -2), D(105, -2))])

\* build_composite_factor on its features and the result g of analyze_with_gemini
composite_frame(df, g, n) ==
    IF g.exc # "" THEN [factor |-> <<>>, exc |-> g.exc, rows |-> <<>>]
    ELSE OutFrame(df, clip_composite(composite_z(df, gemini_factor_of(g), n),
                                     gemini_factor_of(g)))

\* EnhancedSentimentAnalyzer.build_composite_factor(trends_df, reddit_df)
build_composite_factor(trends_df, recs, n, gemini_enabled) ==
    composite_frame(composite_features(trends_df, recs, n),
                    analyze_with_gemini(gemini_enabled), n)

\* np.linspace(a, b, n)
Linspace(a, b, n) ==
    [i \in 1..n |-> IF n = 1 THEN a
                    ELSE fadd(a, fdiv(fmul(fsub(b, a), D(i - 1, 0)), D(n - 1, 0)))]

\* the mock frame of build_sentiment_factor.main (rows 268-295, trend from
\* 0.98 to 1.02) and of _generate_mock_data (enhanced_sentiment rows 272-287,
\* from 0.97 to 1.03); draws is what np.random.normal drew, the features
\* what np.random.uniform drew
mock_factor(n, from, to, draws) ==
    [i \in 1..n |-> NpClip(fadd(Linspace(from, to, n)[i], draws[i]),
                           D(95, -2), D(105, -2))]
mock_frame(n, f, features) ==
    [factor |-> f,
     exc |-> "",
     rows |-> [i \in 1..n |->
         [date |-> DayLabel(i),
          sentiment_factor |-> RoundDec(f[i], 4),
          trends_level |-> RoundDec(features[i], 3),
          trends_momentum |-> RoundDec(features[i], 3),
          reddit_volume_mom |-> RoundDec(features[i], 3),
          reddit_sentiment |-> RoundDec(features[i], 3)]]]
mock_data(n, from, to, draws, features) ==
    mock_frame(n, mock_factor(n, from, to, draws), features)

\* pd.to_datetime(date).dt.to_period("M").astype(str)
MonthOf(label) ==
    CASE label \div 100 = 202507 -> "2025-07"
      [] label \div 100 = 202508 -> "2025-08"
      [] OTHER -> "2025-09"
MonthOrder == <<"2025-07", "2025-08", "2025-09">>

\* the factors of the rows of the month, nan skipped
FactorsOf(rows, month) ==
    Valid([i \in 1..Len(SelectSeq(rows, LAMBDA r : MonthOf(r.date) = month)) |->
              SelectSeq(rows, LAMBDA r : MonthOf(r.date) = month)[i].sentiment_factor])

\* mutant: every month gets the mean of all the days
group_mean_AllDays(rows, month) ==
    [month |-> month,
     sentiment_factor |->
         IF Len(rows) = 0 THEN NaN
         ELSE fdiv(SumOf([i \in 1..Len(rows) |-> rows[i].sentiment_factor], 1),
                   D(Len(rows), 0))]

\* the row of one group of sent.groupby("month")["sentiment_factor"].mean()
group_mean(rows, month) ==
    [month |-> month,
     sentiment_factor |->
         IF Len(FactorsOf(rows, month)) = 0 THEN NaN
         ELSE fdiv(SumOf(FactorsOf(rows, month), 1), D(Len(FactorsOf(rows, month)), 0))]

\* sent.groupby("month", as_index=False)["sentiment_factor"].mean(): a row
\* for each month that occurs, the months in order
monthly_means(rows) ==
    [k \in 1..Len(SelectSeq(MonthOrder,
                  LAMBDA mo : \E i \in 1..Len(rows) : MonthOf(rows[i].date) = mo)) |->
        group_mean(rows, SelectSeq(MonthOrder,
                  LAMBDA mo : \E i \in 1..Len(rows) : MonthOf(rows[i].date) = mo)[k])]

\* the state of the sentiment variables while no sentiment run is on
NoSentiment ==
    /\ provider = ""
    /\ ndays = 0
    /\ trends = <<>>
    /\ reddit = <<>>
    /\ band = <<>>
    /\ gemini = FALSE
    /\ noise = <<>>
    /\ series = <<>>
    /\ zs = <<>>
    /\ daily = <<>>
    /\ clipped = <<>>
    /\ sentcfg = ""
    /\ use_real_data = FALSE
    /\ daily_csv = <<>>
    /\ monthly_csv = <<>>
    /\ feat = <<>>
    /\ sstate = ""

---------------------------------------------------------------------------
(* The driver: load_config, run_model, the accuracy assertion, repeated *)

Init ==
    /\ doc \in Docs
    /\ pc = "start"
    /\ cfg = NoCfg
    /\ res = NoRes
    /\ prev = NoRes
    /\ nruns = 0
    /\ exc = ""
    /\ accepted = FALSE
    /\ NoForecast
    /\ NoFetch
    /\ NoSentiment

\* cfg = load_config(path)
LoadConfig ==
    /\ pc = "start"
    /\ LET r == load_config(doc)
       IN  /\ cfg' = r.cfg
           /\ exc' = r.exc
           /\ pc' = IF r.exc = "" THEN "loaded" ELSE "load_failed"
    /\ UNCHANGED <<doc, res, prev, nruns, accepted>>
    /\ UNCHANGED notDriver

\* res = run_model(cfg)
RunModel ==
    /\ pc = "loaded"
    /\ LET r == run_model(cfg)
       IN  /\ exc' = r.exc
           /\ IF r.exc = ""
              THEN /\ res' = r.res
                   /\ prev' = res
                   /\ nruns' = nruns + 1
                   /\ pc' = "ran"
              ELSE /\ pc' = "run_failed"
                   /\ UNCHANGED <<res, prev, nruns>>
    /\ UNCHANGED <<doc, cfg, accepted>>
    /\ UNCHANGED notDriver

\* assert _abs_pct(res["error_pct"]) <= 0.05
CheckAccuracy ==
    /\ pc = "ran"
    /\ accepted' = WithinTolerance(res)
    /\ exc' = IF WithinTolerance(res) THEN "" ELSE "AssertionError"
    /\ pc' = "checked"
    /\ UNCHANGED <<doc, cfg, res, prev, nruns>>
    /\ UNCHANGED notDriver

\* a further run_model(cfg) on the configuration already loaded
\* (test_calculation_consistency, after load_config)
RunAgain ==
    /\ pc = "checked"
    /\ nruns < MaxRuns
    /\ pc' = "loaded"
    /\ exc' = ""
    /\ accepted' = FALSE
    /\ UNCHANGED <<doc, cfg, res, prev, nruns>>
    /\ UNCHANGED notDriver

\* the next test function loads the same file again
LoadAgain ==
    /\ pc = "checked"
    /\ nruns < MaxRuns
    /\ pc' = "start"
    /\ cfg' = NoCfg
    /\ exc' = ""
    /\ accepted' = FALSE
    /\ UNCHANGED <<doc, res, prev, nruns>>
    /\ UNCHANGED notDriver

Next == LoadConfig \/ RunModel \/ CheckAccuracy \/ RunAgain \/ LoadAgain

Spec == Init /\ [][Next]_vars

---------------------------------------------------------------------------
(* q3_forecast.main: the forecast of the three scenarios, or one custom
   scenario, while the sentiment run may rewrite the monthly file *)

ForecastDocs ==
    BaseDocs
    \cup { FullDoc("Q3 2025", Zero, [f \in InterestFields |-> Zero],
                   [eth_staked_units |-> D(1, 6), eth_price |-> D(2, 3),
                    reward_apr |-> D(4, -2), take_rate |-> D(25, -2)],
                   [auc |-> D(2, 12), fee_bps |-> D(5, -4)], D(2, 6)) }
    \cup { DropKey(d, "custody") : d \in BaseDocs }

Files ==
    { NoFile,
      MonthlyFile(<<>>),
      MonthlyFile(<<[sentiment_factor |-> D(101, -2)]>>),
      MonthlyFile(<<Row("2025-07", D(1, 0)), Row("2025-08", D(10214, -4)),
                    Row("2025-09", D(9876, -4))>>),
      MonthlyFile(<<Row("2025-08", D(105, -2)), Row("2025-09", D(95, -2))>>),
      MonthlyFile(<<Row("2025-07", D(1, 0)), Row("2025-08", D(96, -2))>>),
      MonthlyFile(<<Row("2025-09", D(102, -2))>>),
      MonthlyFile(<<Row("2025-08", D(102, -2)), Row("2025-08", D(97, -2)),
                    Row("2025-09", D(1, 0))>>) }

ArgChoices == { DefaultParams, Params(D(80, 0), D(80, 0), D(25, -4)),
                Params(Zero, D(1, 2), D(3, -3)) }

FInit ==
    /\ doc \in ForecastDocs
    /\ mfile \in Files
    /\ args \in ArgChoices
    /\ pc = "main"
    /\ cfg = NoCfg
    /\ res = NoRes
    /\ prev = NoRes
    /\ nruns = 0
    /\ exc = ""
    /\ accepted = FALSE
    /\ trans_rev = NoTrans
    /\ bull_trans = NoTrans
    /\ bear_trans = NoTrans
    /\ forecast = NoResult
    /\ nwrites = 0
    /\ NoFetch
    /\ NoSentiment

\* main, rows 149-151: custom parameters were given
CustomTransactions ==
    /\ pc = "main"
    /\ args # DefaultParams
    /\ trans_rev' = calculate_transaction_revenue(mfile, args.aug, args.sep, args.rate)
    /\ pc' = "load"
    /\ UNCHANGED <<doc, cfg, res, prev, nruns, exc, accepted>>
    /\ UNCHANGED <<mfile, args, bull_trans, bear_trans, forecast, nwrites>>
    /\ UNCHANGED notForecast

\* q3_config = load_config("configs/q3_2025.json") (rows 66, 152)
FLoadConfig ==
    /\ \/ pc = "main" /\ args = DefaultParams
       \/ pc = "load"
    /\ LET r == load_config(doc)
       IN  /\ cfg' = r.cfg
           /\ exc' = r.exc
           /\ pc' = IF r.exc = "" THEN "run" ELSE "failed"
    /\ UNCHANGED <<doc, res, prev, nruns, accepted>>
    /\ UNCHANGED fvars
    /\ UNCHANGED notForecast

\* s_s_results = run_model(q3_config) (rows 67, 153)
FRunModel ==
    /\ pc = "run"
    /\ LET r == run_model(cfg)
       IN  /\ exc' = r.exc
           /\ IF r.exc = ""
              THEN /\ res' = r.res
                   /\ prev' = res
                   /\ nruns' = nruns + 1
                   /\ pc' = IF args = DefaultParams THEN "base" ELSE "custom_total"
              ELSE /\ pc' = "failed"
                   /\ UNCHANGED <<res, prev, nruns>>
    /\ UNCHANGED <<doc, cfg, accepted>>
    /\ UNCHANGED fvars
    /\ UNCHANGED notForecast

\* trans_rev = calculate_transaction_revenue() (row 79)
FBase ==
    /\ pc = "base"
    /\ trans_rev' = calculate_transaction_revenue(mfile, DefaultParams.aug,
                                                  DefaultParams.sep, DefaultParams.rate)
    /\ pc' = "bull"
    /\ UNCHANGED dvars_but_pc
    /\ UNCHANGED <<mfile, args, bull_trans, bear_trans, forecast, nwrites>>
    /\ UNCHANGED notForecast

\* bull_trans = calculate_transaction_revenue(sep_notional_b=88, take_rate=0.0027)
FBull ==
    /\ pc = "bull"
    /\ bull_trans' = calculate_transaction_revenue(mfile, BullParams.aug,
                                                   BullParams.sep, BullParams.rate)
    /\ pc' = "bear"
    /\ UNCHANGED dvars_but_pc
    /\ UNCHANGED <<mfile, args, trans_rev, bear_trans, forecast, nwrites>>
    /\ UNCHANGED notForecast

\* bear_trans = calculate_transaction_revenue(aug_notional_b=65,
\*                  sep_notional_b=72, take_rate=0.0023)
FBear ==
    /\ pc = "bear"
    /\ bear_trans' = calculate_transaction_revenue(mfile, BearParams.aug,
                                                   BearParams.sep, BearParams.rate)
    /\ pc' = "return"
    /\ UNCHANGED dvars_but_pc
    /\ UNCHANGED <<mfile, args, trans_rev, bull_trans, forecast, nwrites>>
    /\ UNCHANGED notForecast

\* the dict of rows 125-136, from the totals of rows 88, 102, 106, 110
FReturn ==
    /\ pc = "return"
    /\ LET total_revenue == ScenarioTotal(trans_rev, res)
           base_total == total_revenue
           bull_total == ScenarioTotal(bull_trans, res)
           bear_total == ScenarioTotal(bear_trans, res)
       IN  forecast' = [total_revenue |-> total_revenue,
                        transaction_revenue |-> trans_rev.total,
                        s_s_revenue |-> res.total,
                        scenarios |-> [base |-> base_total, bull |-> bull_total,
                                       bear |-> bear_total],
                        transactions |-> trans_rev,
                        s_s |-> res]
    /\ pc' = "done"
    /\ UNCHANGED dvars_but_pc
    /\ UNCHANGED <<mfile, args, trans_rev, bull_trans, bear_trans, nwrites>>
    /\ UNCHANGED notForecast

\* main, rows 154-155: the total of the custom scenario
CustomTotal ==
    /\ pc = "custom_total"
    /\ forecast' = [NoResult EXCEPT !.total_revenue = ScenarioTotal(trans_rev, res)]
    /\ pc' = "done"
    /\ UNCHANGED dvars_but_pc
    /\ UNCHANGED <<mfile, args, trans_rev, bull_trans, bear_trans, nwrites>>
    /\ UNCHANGED notForecast

\* build_sentiment_factor.main writes the monthly file anew, or the file
\* is removed, while the forecast runs
RewriteFile ==
    /\ pc \in {"main", "load", "run", "base", "bull", "bear"}
    /\ nwrites < MaxWrites
    /\ mfile' \in Files \ {mfile}
    /\ nwrites' = nwrites + 1
    /\ UNCHANGED dvars
    /\ UNCHANGED <<args, trans_rev, bull_trans, bear_trans, forecast>>
    /\ UNCHANGED notForecast

FNext ==
    CustomTransactions \/ FLoadConfig \/ FRunModel \/ FBase \/ FBull \/ FBear
    \/ FReturn \/ CustomTotal \/ RewriteFile

SpecForecast == FInit /\ [][FNext]_vars

---------------------------------------------------------------------------
(* The fetch loops *)

NInit ==
    /\ fetcher \in Fetchers
    /\ nunits \in 1..MaxUnits
    /\ unit = 1
    /\ out = <<>>
    /\ log = <<>>
    /\ replies = <<>>
    /\ fstate = "loop"
    /\ doc = NoDoc
    /\ pc = "fetch"
    /\ cfg = NoCfg
    /\ res = NoRes
    /\ prev = NoRes
    /\ nruns = 0
    /\ exc = ""
    /\ accepted = FALSE
    /\ NoForecast
    /\ NoSentiment

InLoop(f) == fetcher = f /\ fstate = "loop" /\ unit <= nunits

\* build_sentiment_factor.fetch_trends, one keyword (rows 23-38): any
\* exception of the call is caught and a frame of 50s stands in; the sleep
\* follows the try statement
FetchTrendsKeyword ==
    /\ InLoop("fetch_trends")
    /\ \E reply \in TrendsReplies :
          /\ replies' = Append(replies, reply)
          /\ out' = Append(out, IF reply.kind = "ok"
                                THEN Frame(unit, "fetched", reply.value)
                                ELSE PlaceholderFrame(unit))
          /\ log' = log \o <<Call(unit), Sleep(TrendsDelay)>>
    /\ unit' = unit + 1
    /\ UNCHANGED <<fetcher, nunits, fstate>>
    /\ UNCHANGED <<dvars, fvars, svars>>

\* build_sentiment_factor.fetch_reddit_counts_and_sentiment, one day (rows
\* 66-99): only requests.RequestException is caught
FetchRedditDay ==
    /\ InLoop("fetch_reddit_counts_and_sentiment")
    /\ \E reply \in RedditReplies :
          LET r == Request(reply, FALSE)
          IN  /\ replies' = Append(replies, reply)
              /\ IF r.exc \in {"", "RequestException"}
                 THEN /\ out' = Append(out, Rec(unit, r.all_scores))
                      /\ log' = log \o <<Call(unit), Sleep(RedditDelay)>>
                      /\ unit' = unit + 1
                      /\ UNCHANGED <<fstate, exc>>
                 ELSE /\ log' = Append(log, Call(unit))
                      /\ fstate' = "raised"
                      /\ exc' = r.exc
                      /\ UNCHANGED <<out, unit>>
    /\ UNCHANGED <<fetcher, nunits>>
    /\ UNCHANGED <<doc, pc, cfg, res, prev, nruns, accepted>>
    /\ UNCHANGED <<fvars, svars>>

\* EnhancedSentimentAnalyzer.fetch_google_trends, one keyword (rows 77-90):
\* on an exception the loop continues with the next keyword at once
FetchGoogleTrendsKeyword ==
    /\ InLoop("fetch_google_trends")
    /\ \E reply \in TrendsReplies :
          /\ replies' = Append(replies, reply)
          /\ IF reply.kind = "ok"
             THEN /\ out' = Append(out, Frame(unit, "fetched", reply.value))
                  /\ log' = log \o <<Call(unit), Sleep(TrendsDelay)>>
             ELSE /\ out' = out
                  /\ log' = Append(log, Call(unit))
    /\ unit' = unit + 1
    /\ UNCHANGED <<fetcher, nunits, fstate>>
    /\ UNCHANGED <<dvars, fvars, svars>>

\* EnhancedSentimentAnalyzer.fetch_google_trends without pytrends, or with
\* TrendReq() failing (rows 68-73, 98-100): None, no keyword is fetched
FetchGoogleTrendsUnavailable ==
    /\ InLoop("fetch_google_trends")
    /\ unit = 1
    /\ fstate' = "returned"
    /\ UNCHANGED <<fetcher, nunits, unit, out, log, replies>>
    /\ UNCHANGED <<dvars, fvars, svars>>

\* EnhancedSentimentAnalyzer.fetch_reddit_data, one day (rows 108-141):
\* every exception is swallowed, what was scored before it stays
FetchRedditDataDay ==
    /\ InLoop("fetch_reddit_data")
    /\ \E reply \in RedditReplies :
          LET r == Request(reply, TRUE)
          IN  /\ replies' = Append(replies, reply)
              /\ out' = Append(out, Rec(unit, r.all_scores))
              /\ log' = log \o <<Call(unit), Sleep(RedditDelay)>>
    /\ unit' = unit + 1
    /\ UNCHANGED <<fetcher, nunits, fstate>>
    /\ UNCHANGED <<dvars, fvars, svars>>

\* the loop is over: the function returns what it collected
FetchReturn ==
    /\ fstate = "loop"
    /\ unit > nunits
    /\ fstate' = "returned"
    /\ UNCHANGED <<fetcher, nunits, unit, out, log, replies>>
    /\ UNCHANGED <<dvars, fvars, svars>>

NNext ==
    FetchTrendsKeyword \/ FetchRedditDay \/ FetchGoogleTrendsKeyword
    \/ FetchGoogleTrendsUnavailable \/ FetchRedditDataDay \/ FetchReturn

SpecFetch == NInit /\ [][NNext]_vars

---------------------------------------------------------------------------
(* A sentiment run: one provider turns what was fetched for the days of the
   range into the daily frame; zscore on its own *)

Providers == {"build_factor", "build_composite_factor", "main", "_generate_mock_data"}

\* what fetch_trends returned: trends_value on the days Google Trends has
TrendValues == { Zero, D(6, 1) }
TrendsInputs(n) == UNION { [S -> TrendValues] : S \in SUBSET (1..n) \ {{}} }

\* what the Reddit fetch returned: a record for every day
ScoreChoices == { <<>>, <<D(-4, -1), D(8, -1)>> }
RedditInputs(n) ==
    { [k \in 1..n |-> Rec(k, IF k <= MaxPostDays THEN sc[k] ELSE <<>>)] :
        sc \in [1..MaxPostDays -> ScoreChoices] }

Band(max_up, max_down) == [max_up |-> max_up, max_down |-> max_down]
DefaultBand == Band(D(5, -2), D(-5, -2))
Bands == { DefaultBand, Band(D(1, -2), D(-2, -2)) }

\* draws of np.random.normal and of np.random.uniform
NoiseChoices == { D(-8, -2), Zero, D(5, -2) }
FeatureDraw == D(11, -1)

SeriesValues == { NaN, D(1, 0), D(3335, -3) }

\* use_real_data as configs/sentiment_config.json gives it
SentimentConfigs == { "true", "false", "unreadable" }
\* what Google Trends would answer to main: nothing on the first day
MainTrends(n) == [d \in 1..n |-> IF d = 1 THEN Zero ELSE D(6, 1)]

SInit ==
    /\ \/ /\ provider = "build_factor"
          /\ sentcfg = ""
          /\ \E n \in 1..MaxDays :
                ndays = n /\ trends \in TrendsInputs(n) /\ reddit \in RedditInputs(n)
          /\ band \in Bands
          /\ gemini = FALSE
          /\ noise = <<>>
          /\ series = <<>>
       \/ /\ provider = "build_composite_factor"
          /\ sentcfg = ""
          /\ \E n \in 1..MaxDays :
                ndays = n /\ trends \in TrendsInputs(n) /\ reddit \in RedditInputs(n)
          /\ band = DefaultBand
          /\ gemini \in BOOLEAN
          /\ noise = <<>>
          /\ series = <<>>
       \/ /\ provider = "main"
          /\ \E n \in 1..MaxDays :
                /\ ndays = n
                /\ noise \in [1..n -> NoiseChoices]
                /\ trends = MainTrends(n)
                /\ reddit \in RedditInputs(n)
          /\ sentcfg \in SentimentConfigs
          /\ band = DefaultBand
          /\ gemini = FALSE
          /\ series = <<>>
       \/ /\ provider = "_generate_mock_data"
          /\ \E n \in 1..MaxDays : ndays = n /\ noise \in [1..n -> NoiseChoices]
          /\ trends = <<>>
          /\ reddit = <<>>
          /\ sentcfg = ""
          /\ band = DefaultBand
          /\ gemini = FALSE
          /\ series = <<>>
       \/ /\ provider = "zscore"
          /\ sentcfg = ""
          /\ \E n \in 0..MaxDays :
                ndays = n /\ \E vs \in [1..n -> SeriesValues] : series = Series(DateIndex(n), vs)
          /\ trends = <<>>
          /\ reddit = <<>>
          /\ band = DefaultBand
          /\ gemini = FALSE
          /\ noise = <<>>
    /\ zs = <<>>
    /\ daily = <<>>
    /\ clipped = <<>>
    /\ use_real_data = FALSE
    /\ daily_csv = <<>>
    /\ monthly_csv = <<>>
    /\ feat = <<>>
    /\ sstate = "called"
    /\ doc = NoDoc
    /\ pc = "sentiment"
    /\ cfg = NoCfg
    /\ res = NoRes
    /\ prev = NoRes
    /\ nruns = 0
    /\ exc = ""
    /\ accepted = FALSE
    /\ NoForecast
    /\ NoFetch

\* the provider returns its frame, or raises
Deliver(r) ==
    /\ daily' = r.rows
    /\ clipped' = r.factor
    /\ exc' = r.exc
    /\ sstate' = IF r.exc = "" THEN "returned" ELSE "raised"
    /\ UNCHANGED <<provider, ndays, trends, reddit, band, gemini, noise, series, zs>>
    /\ UNCHANGED mainvars
    /\ UNCHANGED <<doc, pc, cfg, res, prev, nruns, accepted>>
    /\ UNCHANGED <<fvars, nvars>>

BuildFactor ==
    /\ provider = "build_factor"
    /\ sstate = "called"
    /\ Deliver(build_factor(trends, reddit, ndays, band.max_up, band.max_down))

BuildCompositeFactor ==
    /\ provider = "build_composite_factor"
    /\ sstate = "called"
    /\ Deliver(build_composite_factor(trends, reddit, ndays, gemini))

\* the mock frame of build_sentiment_factor.main, rows 267-295, which no
\* condition guards
MainMock ==
    /\ provider = "main"
    /\ sstate = "mock"
    /\ Deliver(mock_data(ndays, D(98, -2), D(102, -2), noise, Const(ndays, FeatureDraw)))

\* EnhancedSentimentAnalyzer._generate_mock_data
GenerateMockData ==
    /\ provider = "_generate_mock_data"
    /\ sstate = "called"
    /\ Deliver(mock_data(ndays, D(97, -2), D(103, -2), noise, Const(ndays, FeatureDraw)))

\* zs = zscore(series)
Zscore ==
    /\ provider = "zscore"
    /\ sstate = "called"
    /\ zs' = zscore(series)
    /\ sstate' = "returned"
    /\ UNCHANGED <<provider, ndays, trends, reddit, band, gemini, noise, series, daily,
                   clipped>>
    /\ UNCHANGED mainvars
    /\ UNCHANGED <<dvars, fvars, nvars>>

\* main, rows 205-211: use_real_data of the configuration, False when the
\* file cannot be read
MainLoadConfig ==
    /\ provider = "main"
    /\ sstate = "called"
    /\ use_real_data' = (sentcfg = "true")
    /\ sstate' = IF sentcfg = "true" THEN "real" ELSE "mock"
    /\ UNCHANGED <<provider, ndays, trends, reddit, band, gemini, noise, series, zs,
                   daily, clipped, sentcfg, daily_csv, monthly_csv, feat>>
    /\ UNCHANGED <<dvars, fvars, nvars>>

\* main, rows 213-260: the try block starts with fetch_trends(keywords, ...)
\* (row 217); main has no name keywords, so the NameError reaches the
\* except of row 257 before anything is fetched
MainReal ==
    /\ provider = "main"
    /\ sstate = "real"
    /\ use_real_data' = FALSE
    /\ sstate' = "mock"
    /\ UNCHANGED <<provider, ndays, trends, reddit, band, gemini, noise, series, zs,
                   daily, clipped, sentcfg, daily_csv, monthly_csv, feat>>
    /\ UNCHANGED <<dvars, fvars, nvars>>

\* main rows 193-198 and 298-303: the daily file, and the monthly means
WriteFiles ==
    /\ provider \in {"main", "_generate_mock_data"}
    /\ sstate = "returned"
    /\ daily_csv' = daily
    /\ monthly_csv' = monthly_means(daily)
    /\ sstate' = "written"
    /\ UNCHANGED <<provider, ndays, trends, reddit, band, gemini, noise, series, zs,
                   daily, clipped, sentcfg, use_real_data, feat>>
    /\ UNCHANGED <<dvars, fvars, nvars>>

SNext ==
    BuildFactor \/ BuildCompositeFactor \/ MainLoadConfig \/ MainReal \/ MainMock
    \/ GenerateMockData \/ WriteFiles \/ Zscore

SpecSentiment == SInit /\ [][SNext]_vars

---------------------------------------------------------------------------
(* The momentum features on their own: trends_features, the Reddit columns
   of fetch_reddit_counts_and_sentiment, and the columns of
   build_composite_factor, on series long enough for the moving averages *)

\* a series of n observations: a zeros, then b times one, then zeros
Shape(n, a, b) == [k \in 1..n |-> IF k > a /\ k <= a + b THEN 1 ELSE 0]
ObsShapes(n) ==
    { Shape(n, a, b) : a \in {0, MinPeriods} \cap 0..n, b \in 0..n } 
\* days Google Trends leaves out of the merged frame
GapDays == {3, 9}

XInit ==
    /\ \E n \in 1..MaxObs : \E sh \in ObsShapes(n) :
          /\ ndays = n
          /\ \/ /\ provider = "trends_features"
                /\ trends = [d \in 1..n |-> IF sh[d] = 1 THEN D(6, 1) ELSE Zero]
                /\ reddit = <<>>
             \/ /\ provider = "reddit_features"
                /\ trends = <<>>
                /\ reddit = [k \in 1..n |->
                                Rec(k, IF sh[k] = 1 THEN <<D(-4, -1), D(8, -1)>> ELSE <<>>)]
             \/ /\ provider = "composite_features"
                /\ trends = [d \in (1..n) \ GapDays |->
                                IF sh[d] = 1 THEN D(6, 1) ELSE Zero]
                /\ reddit = [k \in 1..n |-> Rec(k, IF sh[k] = 1 THEN <<D(8, -1)>> ELSE <<>>)]
    /\ band = DefaultBand
    /\ gemini = FALSE
    /\ noise = <<>>
    /\ series = <<>>
    /\ zs = <<>>
    /\ daily = <<>>
    /\ clipped = <<>>
    /\ sentcfg = ""
    /\ use_real_data = FALSE
    /\ daily_csv = <<>>
    /\ monthly_csv = <<>>
    /\ feat = <<>>
    /\ sstate = "called"
    /\ doc = NoDoc
    /\ pc = "features"
    /\ cfg = NoCfg
    /\ res = NoRes
    /\ prev = NoRes
    /\ nruns = 0
    /\ exc = ""
    /\ accepted = FALSE
    /\ NoForecast
    /\ NoFetch

\* the feature function returns its columns
Features(f) ==
    /\ sstate = "called"
    /\ feat' = f
    /\ sstate' = "returned"
    /\ UNCHANGED <<provider, ndays, trends, reddit, band, gemini, noise, series, zs,
                   daily, clipped, sentcfg, use_real_data, daily_csv, monthly_csv>>
    /\ UNCHANGED <<dvars, fvars, nvars>>

TrendsFeatures == provider = "trends_features" /\ Features(trends_features(trends))
RedditFeatures == provider = "reddit_features" /\ Features(reddit_features(reddit))
CompositeFeatures ==
    provider = "composite_features" /\ Features(composite_features(trends, reddit, ndays))

XNext == TrendsFeatures \/ RedditFeatures \/ CompositeFeatures

SpecFeatures == XInit /\ [][XNext]_vars

---------------------------------------------------------------------------
(* Properties *)

\* Python's == on floats: nan equals nothing, itself included
feq(a, b) == IsNum(a) /\ IsNum(b) /\ a = b

\* run_model has returned res for the configuration now in cfg
Returned == pc \in {"ran", "checked"}

\* C1: the total of a result is the sum of the interest, staking, custody and
\* other values of the same result, and other is the configuration's other
\* (which may be negative).
C1_TotalIsSum ==
    Returned =>
        /\ feq(res.total,
               fadd(fadd(fadd(res.interest, res.staking), res.custody), res.other))
        /\ feq(res.other, cfg.other)

C1_Witness ==
    /\ pc = "ran"
    /\ res.other = D(-15, 5)
    /\ res.total = D(453117, 3)

\* C2: with a positive reference total, error_abs is total - reference_total,
\* error_pct is (total - reference_total) / reference_total * 100 (stated
\* without the division: error_pct * reference_total is 100 times the
\* difference), and the reference total is carried into the result.
C2_ErrorMetrics ==
    (Returned /\ fpos(cfg.reference_total)) =>
        /\ feq(res.reference_total, cfg.reference_total)
        /\ feq(res.error_abs, fsub(res.total, cfg.reference_total))
        /\ feq(fmul(res.error_pct, cfg.reference_total),
               fmul(fsub(res.total, cfg.reference_total), D(100, 0)))

C2_Witness ==
    /\ pc = "ran"
    /\ cfg.reference_total = D(453, 6)
    /\ res.error_abs = D(117, 3)
    /\ res.error_pct = Mk(39, 151, -1)

\* C3: with a reference total that is zero or absent from the document, both
\* error fields are nan, which is not the number zero and never passes the
\* backtest assertion abs(error_pct) <= 0.05.
C3_NoReference ==
    (Returned /\ (~HasKey(doc, "reference_total") \/ cfg.reference_total = Zero)) =>
        /\ res.error_abs.t = "nan"
        /\ res.error_pct.t = "nan"
        /\ res.error_abs # Zero
        /\ res.error_pct # Zero
        /\ ~WithinTolerance(res)
        /\ pc = "checked" => (~accepted /\ exc = "AssertionError")

C3_Witness ==
    /\ pc = "checked"
    /\ ~HasKey(doc, "reference_total")
    /\ res.error_pct.t = "nan"
    /\ ~accepted

\* the document lacks a sub-record, or a field of a sub-record, or holds in
\* such a field a value float() does not accept
Defective(d) ==
    \E sub \in SubRecords :
        \/ ~HasKey(d, sub)
        \/ /\ HasKey(d, sub)
           /\ \E f \in FieldsOf(sub) :
                \/ ~HasKey(d[sub], f)
                \/ HasKey(d[sub], f) /\ d[sub][f].t \in {"str", "null"}

\* C5: load_config on a document that lacks a sub-record or one of its
\* fields, or holds a value that is no number in one, fails and returns no
\* QuarterConfig, so run_model is never entered.
C5_LoadRejectsDefective ==
    (Defective(doc) /\ pc # "start") => (pc = "load_failed" /\ cfg = NoCfg)

\* C6: the interest of a result is fiat_balance * fiat_rate * fiat_share +
\* usdc_balance * usdc_rate * usdc_share of its configuration, unrounded; the
\* Q3 inputs give 302,292,000.
C6_Interest ==
    Returned =>
        /\ LET i == cfg.interest
           IN  feq(res.interest,
                   fadd(fmul(fmul(i.fiat_balance, i.fiat_rate), i.fiat_share),
                        fmul(fmul(i.usdc_balance, i.usdc_rate), i.usdc_share)))
        /\ cfg.interest = ExInterest => res.interest = D(302292, 3)

C6_Witness ==
    /\ pc = "ran"
    /\ cfg.interest = ExInterest
    /\ res.interest = D(302292, 3)

\* the staking formula of the specification
StakingFormula(s) ==
    fmul(fdiv(fmul(fmul(s.eth_staked_units, s.eth_price), s.reward_apr), D(4, 0)),
         s.take_rate)

\* C7 as stated: the staking of a result is (eth_staked_units * eth_price *
\* reward_apr / 4) * take_rate, and 33,000,000 units at 3500 with APR 0.040
\* and take rate 0.115 give 331,912.5.
C7_StakingAsStated ==
    Returned =>
        /\ feq(res.staking, StakingFormula(cfg.staking))
        /\ cfg.staking = ExStaking => res.staking = D(3319125, -1)

\* C7 (amended): the staking of a result is (eth_staked_units * eth_price *
\* reward_apr / 4) * take_rate, unrounded, and 33,000,000 units at 3500 with
\* APR 0.040 and take rate 0.115 give 132,825,000.
C7_Staking ==
    Returned =>
        /\ feq(res.staking, StakingFormula(cfg.staking))
        /\ cfg.staking = ExStaking => res.staking = D(132825, 3)

C7_Witness ==
    /\ pc = "ran"
    /\ cfg.staking = ExStaking
    /\ res.staking = D(132825, 3)

\* C8: the custody of a result is auc * fee_bps with fee_bps taken as a
\* fraction; 150,000,000,000 at 0.00013 gives 19,500,000.
C8_Custody ==
    Returned =>
        /\ feq(res.custody, fmul(cfg.custody.auc, cfg.custody.fee_bps))
        /\ cfg.custody = ExCustody => res.custody = D(195, 5)

C8_Witness ==
    /\ pc = "ran"
    /\ cfg.custody = ExCustody
    /\ res.custody = D(195, 5)

\* a step in which run_model is called
RunStep == pc = "loaded" /\ pc' \in {"ran", "run_failed"}

NumberOf(v) == [v EXCEPT !.t = "num"]

\* every required key of the document is there, with exactly the declared
\* fields in each sub-record, and an optional key that is present holds a
\* number or a numeral
RequiredPresent(d) ==
    /\ HasKey(d, "quarter")
    /\ \A sub \in SubRecords : HasKey(d, sub) /\ DOMAIN d[sub] = FieldsOf(sub)
    /\ \A k \in {"reference_total", "other"} :
          HasKey(d, k) => d[k].t \in {"num", "numstr"}

\* C10: when the document omits reference_total and/or other, load_config
\* succeeds, the omitted field is 0 and every other field has the document's
\* value.
C10_OptionalDefaults ==
    (/\ pc # "start"
     /\ RequiredPresent(doc)
     /\ ~HasKey(doc, "reference_total") \/ ~HasKey(doc, "other")) =>
        /\ pc # "load_failed"
        /\ cfg.reference_total = IF HasKey(doc, "reference_total")
                                 THEN NumberOf(doc["reference_total"]) ELSE Zero
        /\ cfg.other = IF HasKey(doc, "other") THEN NumberOf(doc["other"]) ELSE Zero
        /\ cfg.quarter = doc["quarter"]
        /\ \A f \in InterestFields : cfg.interest[f] = doc["interest"][f]
        /\ \A f \in StakingFields : cfg.staking[f] = doc["staking"][f]
        /\ \A f \in CustodyFields : cfg.custody[f] = doc["custody"][f]

C10_Witness ==
    /\ pc = "loaded"
    /\ ~HasKey(doc, "reference_total")
    /\ ~HasKey(doc, "other")
    /\ cfg.reference_total = Zero
    /\ cfg.other = Zero
    /\ cfg.interest = ExInterest


---------------------------------------------------------------------------
(* The ranges of the data model *)

fge0(x) == IsNum(x) /\ fle(Zero, x)
InUnit(x) == fge0(x) /\ fle(x, D(1, 0))

AllNumbers(c) ==
    /\ \A f \in InterestFields : IsNum(c.interest[f])
    /\ \A f \in StakingFields : IsNum(c.staking[f])
    /\ \A f \in CustodyFields : IsNum(c.custody[f])
    /\ IsNum(c.reference_total) /\ IsNum(c.other)

InRange(c) ==
    /\ \A f \in InterestFields : fge0(c.interest[f])
    /\ \A f \in StakingFields : fge0(c.staking[f])
    /\ \A f \in CustodyFields : fge0(c.custody[f])
    /\ fge0(c.reference_total)
    /\ \A f \in ShareFields \cap InterestFields : InUnit(c.interest[f])
    /\ \A f \in ShareFields \cap StakingFields : InUnit(c.staking[f])

\* C11: every QuarterConfig returned by load_config, and so every one that
\* run_model consumes, has all amounts and rates non-negative (other alone
\* may be negative) and its shares and take rate within [0, 1].  Stated for
\* configurations of numbers; fields that are no numbers are C5's subject.
C11_ConfigInRange ==
    (pc \in {"loaded", "ran", "checked"} /\ AllNumbers(cfg)) => InRange(cfg)


---------------------------------------------------------------------------
(* Transaction revenue and scenarios *)

\* notional (in billions) x take rate x sentiment, in dollars
MonthRevenue(notional_b, take_rate, sentiment) ==
    fmul(fmul(notional_b, take_rate), fmul(Billion, sentiment))

\* the dict r is what the claim states for the parameters p
AsStated(r, p) ==
    /\ feq(r.august, MonthRevenue(p.aug, p.rate, r.aug_sentiment))
    /\ feq(r.september, MonthRevenue(p.sep, p.rate, r.sep_sentiment))
    /\ feq(r.july, D(36, 7))
    /\ feq(r.total, fadd(r.july, fadd(r.august, r.september)))

\* C14: calculate_transaction_revenue returns august = aug_notional_b * 1e9 *
\* take_rate * aug_sentiment, september likewise, july = 360,000,000 whatever
\* the parameters and the sentiment, and total = july + august + september;
\* 80 B at a take rate of 0.0025 and sentiment 1.015 is 203,000,000.
C14_TransactionRevenue ==
    /\ trans_rev # NoTrans => AsStated(trans_rev, args)
    /\ bull_trans # NoTrans => AsStated(bull_trans, BullParams)
    /\ bear_trans # NoTrans => AsStated(bear_trans, BearParams)
    /\ (/\ trans_rev # NoTrans
        /\ args.sep = D(80, 0) /\ args.rate = D(25, -4)
        /\ trans_rev.sep_sentiment = D(1015, -3))
       => trans_rev.september = D(203, 6)

C14_Witness ==
    /\ pc = "done"
    /\ bear_trans # NoTrans
    /\ trans_rev.sep_sentiment = D(1015, -3)
    /\ trans_rev.september = D(203, 6)
    /\ bull_trans.aug_sentiment = D(10214, -4)

\* the forecast of the three scenarios has returned
Forecasted == pc = "done" /\ args = DefaultParams

\* C15: in one forecast_q3 run the base, bull and bear totals are each the
\* scenario's transaction total plus the total of the one run_model result,
\* and computing the scenarios leaves that result as it was.
C15_ScenarioTotals ==
    /\ [](Forecasted =>
            /\ nruns = 1
            /\ forecast.s_s = res
            /\ feq(forecast.s_s_revenue, res.total)
            /\ feq(forecast.scenarios.base, fadd(trans_rev.total, res.total))
            /\ feq(forecast.scenarios.bull, fadd(bull_trans.total, res.total))
            /\ feq(forecast.scenarios.bear, fadd(bear_trans.total, res.total)))
    /\ [][(pc \in {"base", "bull", "bear", "return"}) => (res' = res)]_vars

C15_Witness ==
    /\ Forecasted
    /\ forecast.scenarios.bull # forecast.scenarios.base
    /\ forecast.scenarios.bear # forecast.scenarios.base
    /\ fpos(res.total)

\* rows of the table f for the month m
RowsOf(f, m) == { i \in 1..Len(f.rows) : HasKey(f.rows[i], "month") /\ f.rows[i].month = m }
LastRow(f, m) == f.rows[CHOOSE i \in RowsOf(f, m) : \A j \in RowsOf(f, m) : j <= i]
HasBothMonths(f) ==
    f.readable /\ RowsOf(f, "2025-08") # {} /\ RowsOf(f, "2025-09") # {}

\* the pair of multipliers in a result of calculate_transaction_revenue
Multipliers(r) == <<r.aug_sentiment, r.sep_sentiment>>

\* C16: load_sentiment_factors always returns a pair: the file's August and
\* September values when the file is readable and has a 2025-08 and a
\* 2025-09 row, and else the pair (1.018, 1.015), never one value of each.
\* (While the file is as it was at the start, every call has read mfile.)
C16_FactorsOrFallback ==
    \A r \in {trans_rev, bull_trans, bear_trans} :
        (r # NoTrans /\ nwrites = 0) =>
            Multipliers(r) =
                IF HasBothMonths(mfile)
                THEN <<LastRow(mfile, "2025-08").sentiment_factor,
                       LastRow(mfile, "2025-09").sentiment_factor>>
                ELSE <<D(1018, -3), D(1015, -3)>>

C16_Witness ==
    /\ nwrites = 0
    /\ trans_rev # NoTrans
    /\ mfile.readable
    /\ RowsOf(mfile, "2025-08") # {}
    /\ RowsOf(mfile, "2025-09") = {}
    /\ Multipliers(trans_rev) = <<D(1018, -3), D(1015, -3)>>

\* C20: within one forecast_q3 run the base, bull and bear cases use the
\* same August and September multipliers, whatever happens to the monthly
\* sentiment file between the scenario computations.
C20_SameMultipliers ==
    Forecasted =>
        /\ Multipliers(bull_trans) = Multipliers(trans_rev)
        /\ Multipliers(bear_trans) = Multipliers(trans_rev)


\* a < b on numbers
flt(a, b) == fle(a, b) /\ a # b

\* C24: when the three scenario computations of one forecast_q3 run used
\* the same pair of multipliers, both positive, the totals are strictly
\* ordered bull > base > bear, and base is the headline total_revenue.
C24_ScenarioOrder ==
    ( /\ Forecasted
      /\ Multipliers(bull_trans) = Multipliers(trans_rev)
      /\ Multipliers(bear_trans) = Multipliers(trans_rev)
      /\ fpos(trans_rev.aug_sentiment)
      /\ fpos(trans_rev.sep_sentiment) ) =>
        /\ flt(forecast.scenarios.base, forecast.scenarios.bull)
        /\ flt(forecast.scenarios.bear, forecast.scenarios.base)
        /\ feq(forecast.scenarios.base, forecast.total_revenue)

C24_Witness ==
    /\ Forecasted
    /\ Multipliers(trans_rev) = <<D(105, -2), D(95, -2)>>
    /\ Multipliers(bull_trans) = Multipliers(trans_rev)
    /\ Multipliers(bear_trans) = Multipliers(trans_rev)
    /\ flt(forecast.scenarios.bear, forecast.scenarios.bull)


---------------------------------------------------------------------------
(* Failures and delays of the fetch loops *)

\* the call for the unit k did not deliver usable data
UnitFailed(reply) ==
    IF fetcher \in TrendsFetchers THEN reply.kind # "ok"
    ELSE \/ reply.status # "200"
         \/ reply.shape = "null"
         \/ \E i \in 1..Len(reply.posts) : reply.posts[i].kind = "nondict"

\* what stands in for a failed unit k
Neutral(k) ==
    IF fetcher \in TrendsFetchers THEN PlaceholderFrame(k)
    ELSE [unit |-> k, reddit_volume |-> 0, reddit_sentiment_raw |-> Zero]

\* C17: in each of the four fetch loops a keyword or day whose call fails
\* (no connection, a status other than success, malformed data) raises
\* nothing to the caller and does not end the loop: a neutral placeholder
\* stands in for it and every later keyword or day is still fetched.
C17_FailuresContained ==
    /\ fstate # "raised"
    /\ (fstate = "returned" /\ replies # <<>>) =>
           /\ Len(replies) = nunits
           /\ \A k \in 1..nunits :
                 UnitFailed(replies[k]) => \E j \in 1..Len(out) : out[j] = Neutral(k)

\* C18: the calls of a fetch loop are made one after the other and a sleep
\* of the fixed delay (1 s per keyword, 0.3 s per day) lies between any
\* two consecutive calls, also after a call that failed or raised.
C18_DelayBetweenCalls ==
    \A i \in 1..Len(log) :
        (log[i].ev = "call" /\ i < Len(log)) =>
            log[i + 1] = Sleep(IF fetcher \in TrendsFetchers THEN TrendsDelay
                               ELSE RedditDelay)


---------------------------------------------------------------------------
(* The daily sentiment frame *)

\* the band a provider clips to
Lower == IF provider = "build_factor" THEN fadd(D(1, 0), band.max_down) ELSE D(95, -2)
Upper == IF provider = "build_factor" THEN fadd(D(1, 0), band.max_up) ELSE D(105, -2)

InBand(x) == IsNum(x) /\ fle(Lower, x) /\ fle(x, Upper)

\* C12: every sentiment provider (build_factor, build_composite_factor, the
\* two mock generators) gives every day it produces a sentiment_factor that
\* is a number inside the band around 1.0 (by default [0.95, 1.05]), never
\* nan, whatever the input series are: both the column the provider computes
\* and the records it returns of it.
C12_FactorInBand ==
    (provider \in Providers /\ sstate \in {"returned", "raised"}) =>
        /\ \A i \in 1..Len(clipped) : InBand(clipped[i])
        /\ \A i \in 1..Len(daily) : InBand(daily[i].sentiment_factor)

\* the valid elements of vs are all the same, or there is none: the
\* population standard deviation is zero or undefined
Degenerate(vs) ==
    \A i, j \in 1..Len(vs) : (IsNum(vs[i]) /\ IsNum(vs[j])) => vs[i] = vs[j]

\* C13: zscore of a series whose population standard deviation is zero or
\* undefined (constant, of one element, all missing) is 0 for every
\* element, on the index of the series, never nan or infinite.
C13_ZeroScores ==
    (provider = "zscore" /\ sstate = "returned" /\ Degenerate(series.values)) =>
        /\ zs.index = series.index
        /\ \A i \in 1..Len(series.values) : zs.values[i] = Zero

---------------------------------------------------------------------------
(* The monthly file *)

\* the daily factors written for one month, in file order
DailyOf(month) ==
    [i \in 1..Len(SelectSeq(daily_csv, LAMBDA r : MonthOf(r.date) = month)) |->
        SelectSeq(daily_csv, LAMBDA r : MonthOf(r.date) = month)[i].sentiment_factor]

---------------------------------------------------------------------------
(* Real and mock data in main, without the enhanced analyzer *)

\* the frame rows 217-254 of main compute from what the services answer:
\* the steps of build_factor with the band 0.95 .. 1.05
RealFrame == build_factor(trends, reddit, ndays, D(5, -2), D(-5, -2))

\* C23: when main has written its files, use_real_data of the
\* configuration is true and the computation on what Google Trends and
\* Reddit answered succeeds, the daily file holds the records computed from
\* those answers and the monthly file their monthly means; mock records
\* are written only when the configuration does not ask for real data or
\* the real computation failed
C23_RealDataWritten ==
    (provider = "main" /\ sstate = "written" /\ sentcfg = "true" /\ RealFrame.exc = "")
        => /\ daily_csv = RealFrame.rows
           /\ monthly_csv = monthly_means(RealFrame.rows)

---------------------------------------------------------------------------
(* The momentum features *)

\* the observations among the last window rows up to row j
Trailing(vs, j, window) == Valid(SubSeq(vs, IF j > window THEN j - window + 1 ELSE 1, j))

\* today's value over the trailing mean, and 1.0 where there is no value
\* today, fewer than 7 observations, or a mean of zero
Momentum(vs, j, window) ==
    IF IsNum(vs[j]) /\ Len(Trailing(vs, j, window)) >= 7
                    /\ Mean(Trailing(vs, j, window)) # Zero
    THEN fdiv(vs[j], Mean(Trailing(vs, j, window)))
    ELSE D(1, 0)

\* the Google Trends values by day of the range, nan on a day without a row
TrendObs == [d \in 1..ndays |-> IF d \in DOMAIN trends THEN trends[d] ELSE NaN]
\* the number of Reddit posts by day
VolumeObs == [k \in 1..Len(reddit) |-> D(reddit[k].reddit_volume, 0)]

\* C22: trends_momentum is the day's value divided by the mean of the
\* observations of the last 28 rows, reddit_volume_mom the day's volume
\* divided by the mean of the last 14, wherever that window holds at
\* least 7 observations; on the first 6 observations, and where the
\* division is by zero or has no finite result, the feature is exactly 1.0
C22_Momentum ==
    (sstate = "returned" /\ feat # <<>>) =>
        /\ provider = "trends_features" =>
              \A d \in 1..ndays : feat[d].trends_momentum = Momentum(TrendObs, d, 28)
        /\ provider = "reddit_features" =>
              \A k \in 1..ndays : feat[k].reddit_volume_mom = Momentum(VolumeObs, k, 14)
        /\ provider = "composite_features" =>
              \A d \in 1..ndays :
                  /\ feat.trends_momentum[d] = Momentum(TrendObs, d, 28)
                  /\ feat.reddit_volume_mom[d] = Momentum(VolumeObs, d, 14)

\* Reddit volumes of 16 days, none on the first 7: 1.0 on day 1 (too few
\* observations) and on day 7 (0 / 0), a quotient on day 8, and on day 15
\* a quotient by the mean of days 2..15 and not of days 1..15
C22_Witness ==
    /\ provider = "reddit_features"
    /\ sstate = "returned"
    /\ ndays = 16
    /\ feat[1].reddit_volume_mom = D(1, 0)
    /\ VolumeObs[7] = Zero
    /\ feat[7].reddit_volume_mom = D(1, 0)
    /\ feat[8].reddit_volume_mom = D(8, 0)
    /\ feat[15].reddit_volume_mom = fdiv(VolumeObs[15], Mean(SubSeq(VolumeObs, 2, 15)))
    /\ feat[15].reddit_volume_mom # fdiv(VolumeObs[15], Mean(SubSeq(VolumeObs, 1, 15)))

===========================================================================
